---- MODULE Spec2Model ----
(***************************************************************************)
(* storage-cli: a command-line client for object stores (S3, GCS, Azure    *)
(* Blob Storage, Alibaba OSS).  The module models the client-side          *)
(* orchestration of the repository: the S3 server-side copy (simple and     *)
(* multipart), the Azure checksummed put, single and recursive deletion,   *)
(* paginated listing, the exists command with its exit codes, the put      *)
(* retries of S3 and GCS, get, ensure-storage-exists and the Azure copy.   *)
(*                                                                         *)
(* One command runs at a time.  Every request the client sends to the      *)
(* backend is appended to `calls`; the answer of the backend is chosen     *)
(* nondeterministically among the answers the service can give.            *)
(* Byte sizes are counted in MiB.                                          *)
(***************************************************************************)
EXTENDS Integers, Sequences, FiniteSets, TLC

VARIABLES
    pc,            \* position of the running command
    calls,         \* requests sent to the backend so far, with their answers
    ret,           \* error value the command returned (Pending while running)
    objectSize,    \* S3 copy: ContentLength of the source object
    cfgThreshold,  \* S3 copy: cfg.MultipartCopyThreshold
    cfgPartSize,   \* S3 copy: cfg.MultipartCopyPartSize
    partIdx,       \* S3 copy: loop variable i of multipartCopy
    completedParts,\* S3 copy: completedParts of multipartCopy
    completed,     \* S3 copy: the flag the deferred abort reads
    mpErr,         \* S3 copy: the error multipartCopy returns
    cfgTimeout,    \* Azure put: storageConfig.Timeout, a string
    badURL,        \* Azure put: the blob URL of dest does not parse
    dest,          \* Azure put: destination blob name
    sourceMD5,     \* Azure put: MD5 of the source file
    remoteMD5,     \* Azure put: ContentMD5 of the upload response
    backend,       \* storage type of the client: "s3", "gcs", "azurebs", "alioss"
    readOnly,      \* s3: credentials_source none; gcs: no authenticated client
    cfgFolder,     \* s3: cfg.FolderName
    store,         \* keys of the objects in the bucket or container
    cmd,           \* command of the current (or last) invocation
    args,          \* its arguments after the command name
    exitCode,      \* exit status of the last invocation, -1 while it runs
    prev,          \* command, arguments and result of the invocation before
    store0,        \* the bucket when the current command started
    marker,        \* list: continuation of the next page request, <<>> for none
    objects,       \* list: the names collected so far
    pending,       \* delete-recursive: keys of the current page not yet handled
    more,          \* delete-recursive: the current page reported a continuation
    workers,       \* gcs delete-recursive: state of the goroutine of each name
    errChan,       \* gcs delete-recursive: errors sent to errChan, in order
    envDeleted,    \* keys another client removed while the command ran
    retry,         \* put: s3 retry, gcs loop index i
    srcSize,       \* put: length of the source file
    srcPos,        \* put: read position of the source
    startPos,      \* gcs put: pos, the read position found before the first attempt
    localFile,     \* get: the local destination file
    localFile0,    \* get: the local destination file when the command started
    remoteSize,    \* get: length of the remote object, -1 when there is none
    blobSize,      \* azure get: the size DownloadFile returned
    bucket,        \* ensure-storage-exists: the bucket or container exists
    procs          \* ensure-storage-exists: position and result of each invocation

copyVars == <<objectSize, cfgThreshold, cfgPartSize, partIdx, completedParts, completed, mpErr>>
putVars == <<cfgTimeout, badURL, dest, sourceMD5, remoteMD5>>
cliVars == <<backend, readOnly, cfgFolder, store, cmd, args, exitCode, prev>>
bulkVars == <<store0, marker, objects, pending, more, workers, errChan, envDeleted>>
uploadVars == <<retry, srcSize, srcPos, startPos>>
getVars == <<localFile, localFile0, remoteSize, blobSize>>
ensureVars == <<bucket, procs>>
vars == <<pc, calls, ret, copyVars, putVars, cliVars, bulkVars, uploadVars, getVars, ensureVars>>

----------------------------------------------------------------------------
(* Bounds of the model *)
MaxSize == 6       \* small object sizes 0..MaxSize
MaxCfg == 3        \* configured threshold / part size 0..MaxCfg (0 = not set)
MaxParts == 6      \* copies with more parts are not explored

----------------------------------------------------------------------------
(* Error values.  An error is its chain of messages, outermost first, and  *)
(* the API error code errors.As finds in the chain ("-" when there is none)*)
(* and the keys the messages name.                                         *)
Nil == [code |-> "nil", msg |-> <<>>, keys |-> <<>>]
Pending == [code |-> "pending", msg |-> <<>>, keys |-> <<>>]
NewErr(text) == [code |-> "-", msg |-> <<text>>, keys |-> <<>>]
ApiErr(c) == [code |-> c, msg |-> <<c>>, keys |-> <<>>]
Wrap(text, e) == [code |-> e.code, msg |-> <<text>> \o e.msg, keys |-> e.keys]
WrapAll(texts, e) == [code |-> e.code, msg |-> texts \o e.msg, keys |-> e.keys]
WrapKey(text, k, e) == [code |-> e.code, msg |-> <<text>> \o e.msg, keys |-> <<k>> \o e.keys]
IsErr(e) == e # Nil /\ e # Pending

(* One request to the backend: operation, part number, byte range, the     *)
(* keys it names or returns, and the answer ("ok" or an error code).       *)
Call(op, n, lo, hi, keys, res) ==
    [op |-> op, n |-> n, lo |-> lo, hi |-> hi, keys |-> keys, res |-> res]
SimpleCall(op, res) == Call(op, 0, 0, 0, <<>>, res)
KeyCall(op, keys, res) == Call(op, 0, 0, 0, keys, res)

CallsOf(op) == {i \in 1..Len(calls) : calls[i].op = op}

----------------------------------------------------------------------------
(* S3: Copy, simpleCopy, multipartCopy *)

defaultMultipartCopyThreshold == 5 * 1024
defaultMultipartCopyPartSize == 100

CopyThreshold(cfg) == IF cfg > 0 THEN cfg ELSE defaultMultipartCopyThreshold
CopyPartSize(cfg) == IF cfg > 0 THEN cfg ELSE defaultMultipartCopyPartSize

NumParts(size, partSize) == (size + partSize - 1) \div partSize
PartStart(i, partSize) == i * partSize
PartEndUnclamped(i, size, partSize) == PartStart(i, partSize) + partSize - 1
PartEnd(i, size, partSize) ==
    LET end == PartStart(i, partSize) + partSize - 1
    IN  IF end >= size THEN size - 1 ELSE end

UseSimpleCopyNever(size, threshold) == FALSE
UseSimpleCopy(size, threshold) == size < threshold

(* completedParts = append(completedParts, ...) *)
PrependPart(parts, n) == <<n>> \o parts
AppendPart(parts, n) == Append(parts, n)
IsNotImplementedNever(e) == FALSE
IsNotImplementedAny(e) == TRUE
IsNotImplemented(e) == e.code = "NotImplemented"

ObjectSizes == (0..MaxSize) \cup {550}
    \cup {defaultMultipartCopyThreshold - 1, defaultMultipartCopyThreshold,
          defaultMultipartCopyThreshold + 1}
CfgThresholds == 0..MaxCfg
CfgPartSizes == (0..MaxCfg) \cup {2048}

copyPartSize == CopyPartSize(cfgPartSize)
copyThreshold == CopyThreshold(cfgThreshold)
numParts == NumParts(objectSize, copyPartSize)

IdleCopy ==
    /\ objectSize = 0
    /\ cfgThreshold = 0
    /\ cfgPartSize = 0
    /\ partIdx = 0
    /\ completedParts = <<>>
    /\ completed = FALSE
    /\ mpErr = Nil

IdlePut ==
    /\ cfgTimeout = ""
    /\ badURL = FALSE
    /\ dest = <<>>
    /\ sourceMD5 = ""
    /\ remoteMD5 = ""

NoRun == [cmd |-> "none", args |-> <<>>, ret |-> Nil]

IdleCli ==
    /\ backend = "s3"
    /\ readOnly = FALSE
    /\ cfgFolder = <<>>
    /\ store = {}
    /\ cmd = "none"
    /\ args = <<>>
    /\ exitCode = -1
    /\ prev = NoRun

IdleBulk ==
    /\ store0 = {}
    /\ marker = <<>>
    /\ objects = <<>>
    /\ pending = <<>>
    /\ more = FALSE
    /\ workers = <<>>
    /\ errChan = <<>>
    /\ envDeleted = {}

IdleUpload ==
    /\ retry = 0
    /\ srcSize = 0
    /\ srcPos = 0
    /\ startPos = 0

NoFile == [there |-> FALSE, data |-> <<>>]

IdleGet ==
    /\ localFile = NoFile
    /\ localFile0 = NoFile
    /\ remoteSize = -1
    /\ blobSize = 0

IdleEnsure ==
    /\ bucket = FALSE
    /\ procs = <<>>

InitCopy ==
    /\ IdlePut
    /\ IdleCli
    /\ IdleBulk
    /\ IdleUpload
    /\ IdleGet
    /\ IdleEnsure
    /\ pc = "head"
    /\ calls = <<>>
    /\ ret = Pending
    /\ objectSize \in ObjectSizes
    /\ cfgThreshold \in CfgThresholds
    /\ cfgPartSize \in CfgPartSizes
    /\ NumParts(objectSize, CopyPartSize(cfgPartSize)) <= MaxParts
    /\ partIdx = 0
    /\ completedParts = <<>>
    /\ completed = FALSE
    /\ mpErr = Nil

(* Copy up to its first copy request: HeadObject, then the choice of       *)
(* strategy.                                                               *)
S3CopyHeadGoesOn ==
    /\ pc = "head"
    /\ \E r \in {"ok", "nolen", "NotFound", "Other"} :
        calls' = Append(calls, SimpleCall("HeadObject", r))
    /\ pc' = IF UseSimpleCopy(objectSize, copyThreshold) THEN "simple" ELSE "create"
    /\ UNCHANGED <<ret, copyVars, putVars, cliVars, bulkVars, uploadVars, getVars, ensureVars>>

S3CopyHead ==
    /\ pc = "head"
    /\ \E r \in {"ok", "nolen", "NotFound", "Other"} :
        /\ calls' = Append(calls, SimpleCall("HeadObject", r))
        /\ IF r = "ok"
           THEN /\ pc' = IF UseSimpleCopy(objectSize, copyThreshold) THEN "simple" ELSE "create"
                /\ ret' = ret
           ELSE /\ pc' = "done"
                /\ ret' = IF r = "nolen"
                          THEN NewErr("unable to determine object content length from S3 metadata")
                          ELSE Wrap("failed to get object metadata", ApiErr(r))
    /\ UNCHANGED <<copyVars, putVars, cliVars, bulkVars, uploadVars, getVars, ensureVars>>

(* simpleCopy: one CopyObject request; Copy returns its result *)
S3SimpleCopy ==
    /\ pc = "simple"
    /\ \E r \in {"ok", "NotImplemented", "Other"} :
        /\ calls' = Append(calls, SimpleCall("CopyObject", r))
        /\ ret' = IF r = "ok" THEN Nil ELSE Wrap("failed to copy object", ApiErr(r))
    /\ pc' = "done"
    /\ UNCHANGED <<copyVars, putVars, cliVars, bulkVars, uploadVars, getVars, ensureVars>>

(* What Copy does with the error multipartCopy returned *)
AfterMultipart(e) ==
    IF IsNotImplemented(e)
    THEN /\ pc' = "simple"
         /\ ret' = ret
    ELSE /\ pc' = "done"
         /\ ret' = e

(* multipartCopy: CreateMultipartUpload.  A failure returns before the     *)
(* deferred abort is registered.                                           *)
S3CreateMultipartUpload ==
    /\ pc = "create"
    /\ \E r \in {"ok", "NotImplemented", "Other"} :
        /\ calls' = Append(calls, SimpleCall("CreateMultipartUpload", r))
        /\ IF r = "ok"
           THEN /\ pc' = IF 0 < numParts THEN "part" ELSE "complete"
                /\ ret' = ret
                /\ mpErr' = mpErr
           ELSE /\ mpErr' = Wrap("failed to create multipart upload", ApiErr(r))
                /\ AfterMultipart(mpErr')
    /\ partIdx' = 0
    /\ completedParts' = <<>>
    /\ UNCHANGED <<objectSize, cfgThreshold, cfgPartSize, completed, putVars, cliVars, bulkVars, uploadVars, getVars, ensureVars>>

(* multipartCopy: one iteration of the part loop *)
S3UploadPartCopy ==
    /\ pc = "part"
    /\ partIdx < numParts
    /\ LET partNumber == partIdx + 1
           start == PartStart(partIdx, copyPartSize)
           end == PartEnd(partIdx, objectSize, copyPartSize)
       IN \E r \in {"ok", "NotImplemented", "Other"} :
            /\ calls' = Append(calls, Call("UploadPartCopy", partNumber, start, end, <<>>, r))
            /\ IF r = "ok"
               THEN /\ completedParts' = AppendPart(completedParts, partNumber)
                    /\ partIdx' = partIdx + 1
                    /\ pc' = IF partIdx + 1 < numParts THEN "part" ELSE "complete"
                    /\ mpErr' = mpErr
               ELSE /\ mpErr' = Wrap("failed to copy part", ApiErr(r))
                    /\ pc' = "abort"
                    /\ UNCHANGED <<completedParts, partIdx>>
    /\ UNCHANGED <<ret, objectSize, cfgThreshold, cfgPartSize, completed, putVars, cliVars, bulkVars, uploadVars, getVars, ensureVars>>

(* multipartCopy: CompleteMultipartUpload with the collected parts *)
S3CompleteMultipartUpload ==
    /\ pc = "complete"
    /\ \E r \in {"ok", "NotImplemented", "Other"} :
        /\ calls' = Append(calls, Call("CompleteMultipartUpload", Len(completedParts), 0, 0, completedParts, r))
        /\ IF r = "ok"
           THEN /\ completed' = TRUE
                /\ mpErr' = Nil
           ELSE /\ mpErr' = Wrap("failed to complete multipart upload", ApiErr(r))
                /\ completed' = completed
    /\ pc' = "abort"
    /\ ret' = ret
    /\ UNCHANGED <<objectSize, cfgThreshold, cfgPartSize, partIdx, completedParts, putVars, cliVars, bulkVars, uploadVars, getVars, ensureVars>>

(* if !completed *)
AbortAlways(done) == TRUE
AbortNeeded(done) == ~done

(* The error multipartCopy returns once the deferred function has run: the *)
(* err of the deferred function is its own, a failed abort is logged only. *)
AbortResultEscalated(cause, r) ==
    IF r = "ok" THEN cause ELSE Wrap("failed to abort multipart upload", ApiErr(r))
AbortResult(cause, r) == cause

(* The deferred function of multipartCopy, run when multipartCopy returns  *)
(* after the session was opened: abort unless completed.  Then Copy        *)
(* handles the error multipartCopy returned.                               *)
S3AbortSkipped ==
    /\ pc = "abort"
    /\ AfterMultipart(mpErr)
    /\ UNCHANGED <<calls, copyVars, putVars, cliVars, bulkVars, uploadVars, getVars, ensureVars>>

S3AbortMultipartUpload ==
    /\ pc = "abort"
    /\ IF AbortNeeded(completed)
       THEN \E r \in {"ok", "Other"} :
                /\ calls' = Append(calls, SimpleCall("AbortMultipartUpload", r))
                /\ mpErr' = AbortResult(mpErr, r)
       ELSE /\ calls' = calls
            /\ mpErr' = mpErr
    /\ AfterMultipart(mpErr')
    /\ UNCHANGED <<objectSize, cfgThreshold, cfgPartSize, partIdx, completedParts, completed,
                   putVars, cliVars, bulkVars, uploadVars, getVars, ensureVars>>

NextCopy ==
    \/ S3CopyHead
    \/ S3SimpleCopy
    \/ S3CreateMultipartUpload
    \/ S3UploadPartCopy
    \/ S3CompleteMultipartUpload
    \/ S3AbortMultipartUpload

SpecCopy == InitCopy /\ [][NextCopy]_vars

----------------------------------------------------------------------------
(* Properties of the S3 copy *)

IsPartCall(c) == c.op = "UploadPartCopy"
PartCalls == CallsOf("UploadPartCopy")
CopyObjectCalls == CallsOf("CopyObject")
AllPartsRejected ==
    /\ PartCalls # {}
    /\ \A i \in PartCalls : calls[i].res = "NotImplemented"

(* C1: a source at or above the multipart-copy threshold whose part-copy   *)
(* calls are all rejected with NotImplemented: the copy issues exactly one *)
(* CopyObject call, succeeds if that call succeeds, and issues no          *)
(* part-copy call after the fallback.                                      *)
C1_FallbackOnce ==
    (~UseSimpleCopy(objectSize, copyThreshold) /\ AllPartsRejected) =>
        /\ Cardinality(PartCalls) = 1
        /\ Cardinality(CopyObjectCalls) <= 1
        /\ \A j \in CopyObjectCalls : \A i \in PartCalls : i < j
        /\ pc = "done" =>
              /\ Cardinality(CopyObjectCalls) = 1
              /\ \A j \in CopyObjectCalls : calls[j].res = "ok" => ret = Nil

C1_Witness ==
    /\ pc = "done"
    /\ ~UseSimpleCopy(objectSize, copyThreshold)
    /\ AllPartsRejected
    /\ numParts > 1
    /\ ret = Nil

(* ceil(a / b), stated without the code's arithmetic *)
Ceil(a, b) == CHOOSE n \in 0..a : n * b >= a /\ (n - 1) * b < a

(* The parts src/s3 computes for a size and a part size *)
PlanOf(size, partSize) ==
    [k \in 1..NumParts(size, partSize) |->
        [n |-> k, lo |-> PartStart(k - 1, partSize), hi |-> PartEnd(k - 1, size, partSize)]]

(* A prefix of a plan is well formed: parts numbered from 1, contiguous    *)
(* inclusive ranges from byte 0, full parts before the last one.           *)
WellFormedParts(parts, size, partSize) ==
    /\ Len(parts) <= Ceil(size, partSize)
    /\ \A k \in 1..Len(parts) :
        /\ parts[k].n = k
        /\ parts[k].lo = IF k = 1 THEN 0 ELSE parts[k - 1].hi + 1
        /\ parts[k].lo <= parts[k].hi
        /\ parts[k].hi - parts[k].lo + 1 <= partSize
        /\ k < Ceil(size, partSize) => parts[k].hi - parts[k].lo + 1 = partSize
        /\ k = Ceil(size, partSize) => parts[k].hi = size - 1

(* C7: the parts of a multipart copy are numbered 1..ceil(size/partSize),  *)
(* their inclusive byte ranges are contiguous, do not overlap and cover    *)
(* exactly bytes 0..size-1; only the last part may be shorter.  Checked on *)
(* the part-copy requests the copy sends, and on the plan of every small   *)
(* size >= 0 and part size > 0.                                            *)
C7_PartPlan ==
    /\ WellFormedParts(SelectSeq(calls, IsPartCall), objectSize, copyPartSize)
    /\ CallsOf("CompleteMultipartUpload") # {} =>
            Len(SelectSeq(calls, IsPartCall)) = Ceil(objectSize, copyPartSize)
    /\ \A size \in 0..MaxSize : \A partSize \in 1..MaxCfg :
        /\ Len(PlanOf(size, partSize)) = Ceil(size, partSize)
        /\ WellFormedParts(PlanOf(size, partSize), size, partSize)

C7_Witness ==
    /\ pc = "done"
    /\ ret = Nil
    /\ Len(SelectSeq(calls, IsPartCall)) = 6
    /\ objectSize = 550
    /\ calls[Len(calls) - 1].lo = 500
    /\ calls[Len(calls) - 1].hi = 549

----------------------------------------------------------------------------
(* Azure: AzBlobstore.Put over DefaultStorageClient.Upload and Delete *)

Digests == {"d1", "d2"}
Timeouts == {"", "1", "0", "-5", "bananas"}
PutDests == {<<"a">>, <<"b">>}

(* strconv.Atoi on the configured strings *)
AtoiFails(str) == str \notin {"1", "0", "-5"}
AtoiValue(str) == CASE str = "1" -> 1 [] str = "0" -> 0 [] str = "-5" -> 0 - 5 [] OTHER -> 0

(* createContext: the error it returns, Nil when it returns a context *)
CreateContextErr(timeoutStr) ==
    IF timeoutStr # ""
    THEN IF AtoiValue(timeoutStr) < 1 /\ ~AtoiFails(timeoutStr)
         THEN NewErr("invalid time")
         ELSE IF AtoiFails(timeoutStr)
              THEN NewErr("invalid timeout format")
              ELSE Nil
    ELSE Nil

(* Upload: is a failed upload reported as the timeout? *)
IsUploadTimeoutAnyConfig(timeoutStr, r) == r = "DeadlineExceeded"
IsUploadTimeout(timeoutStr, r) == timeoutStr # "" /\ r = "DeadlineExceeded"

TimeoutMsg == "upload failed: timeout reached while uploading"
UploadErr(timeoutStr, r) ==
    IF IsUploadTimeout(timeoutStr, r)
    THEN NewErr(TimeoutMsg)
    ELSE Wrap("upload failure", ApiErr(r))

MD5MismatchNever(a, b) == FALSE
MD5Mismatch(a, b) == a # b
MD5MismatchErr(a, b) == [code |-> "-", msg |-> <<"MD5 mismatch", a, b>>, keys |-> <<>>]

InitPut ==
    /\ IdleCopy
    /\ IdleCli
    /\ IdleBulk
    /\ IdleUpload
    /\ IdleGet
    /\ IdleEnsure
    /\ pc = "put"
    /\ calls = <<>>
    /\ ret = Pending
    /\ cfgTimeout \in Timeouts
    /\ badURL \in BOOLEAN
    /\ dest \in PutDests
    /\ sourceMD5 \in Digests
    /\ remoteMD5 = ""

(* Put up to the upload request: getMD5, os.Open, then Upload's            *)
(* createContext and client construction.                                  *)
AzPutStart ==
    /\ pc = "put"
    /\ \E f \in {"ok", "md5-open", "md5-read", "open"} :
        IF f # "ok"
        THEN /\ pc' = "done"
             /\ ret' = IF f = "md5-read"
                       THEN Wrap("failed to calculate md5", NewErr("read"))
                       ELSE NewErr("open: no such file or directory")
        ELSE IF CreateContextErr(cfgTimeout) # Nil
        THEN /\ pc' = "done"
             /\ ret' = Wrap("upload failure", CreateContextErr(cfgTimeout))
        ELSE IF badURL
        THEN /\ pc' = "done"
             /\ ret' = Wrap("upload failure", NewErr("parse url"))
        ELSE /\ pc' = "upload"
             /\ ret' = ret
    /\ UNCHANGED <<calls, copyVars, putVars, cliVars, bulkVars, uploadVars, getVars, ensureVars>>

(* client.Upload, its result in Upload, and the MD5 comparison of Put *)
AzPutUpload ==
    /\ pc = "upload"
    /\ \E r \in {"ok", "DeadlineExceeded", "Other"} : \E md5 \in Digests \cup {""} :
        /\ r # "ok" => md5 = ""
        /\ calls' = Append(calls, KeyCall("Upload", <<dest>>, r))
        /\ remoteMD5' = md5
        /\ IF r # "ok"
           THEN /\ pc' = "done"
                /\ ret' = Wrap("upload failure", UploadErr(cfgTimeout, r))
           ELSE IF MD5Mismatch(sourceMD5, md5)
           THEN /\ pc' = "delete"
                /\ ret' = ret
           ELSE /\ pc' = "done"
                /\ ret' = Nil
    /\ UNCHANGED <<copyVars, cfgTimeout, badURL, dest, sourceMD5, cliVars, bulkVars, uploadVars, getVars, ensureVars>>

(* Put after a mismatch: storageClient.Delete(dest), whose failure is      *)
(* logged, then the mismatch error.  Delete treats RESPONSE 404 as success.*)
AzPutDelete ==
    /\ pc = "delete"
    /\ IF badURL
       THEN calls' = calls
       ELSE \E r \in {"ok", "RESPONSE 404", "Other"} :
                calls' = Append(calls, KeyCall("Delete", <<dest>>, r))
    /\ ret' = MD5MismatchErr(sourceMD5, remoteMD5)
    /\ pc' = "done"
    /\ UNCHANGED <<copyVars, putVars, cliVars, bulkVars, uploadVars, getVars, ensureVars>>

NextPut ==
    \/ AzPutStart
    \/ AzPutUpload
    \/ AzPutDelete

SpecPut == InitPut /\ [][NextPut]_vars

(* C2: when the backend reports a checksum other than the one computed     *)
(* from the source file, put returns the checksum-mismatch error naming    *)
(* both and has issued exactly one delete request, for the destination key.*)
UploadAnswered(r) == \E i \in CallsOf("Upload") : calls[i].res = r
C2_MismatchDeletes ==
    (pc = "done" /\ UploadAnswered("ok") /\ remoteMD5 # sourceMD5) =>
        /\ ret = MD5MismatchErr(sourceMD5, remoteMD5)
        /\ Cardinality(CallsOf("Delete")) = 1
        /\ \A i \in CallsOf("Delete") : calls[i].keys = <<dest>>

C2_Witness ==
    /\ pc = "done"
    /\ UploadAnswered("ok")
    /\ remoteMD5 \in Digests
    /\ remoteMD5 # sourceMD5
    /\ \E i \in CallsOf("Delete") : calls[i].res = "Other"
    /\ ret.msg[1] = "MD5 mismatch"

(* C10: a put that runs past its configured timeout fails with an error    *)
(* that names the timeout, and no other upload failure returns an error    *)
(* with that message.                                                      *)
NamesTimeout(e) == \E i \in 1..Len(e.msg) : e.msg[i] = TimeoutMsg
PutTimedOut == cfgTimeout # "" /\ UploadAnswered("DeadlineExceeded")
C10_TimeoutDistinct ==
    pc = "done" =>
        /\ PutTimedOut => IsErr(ret) /\ NamesTimeout(ret)
        /\ (IsErr(ret) /\ ~PutTimedOut) => ~NamesTimeout(ret)

C10_Witness ==
    /\ pc = "done"
    /\ PutTimedOut
    /\ cfgTimeout = "1"
    /\ NamesTimeout(ret)

(***************************************************************************)
(* The command line: main dispatches one command through                   *)
(* CommandExecuter.Execute and ends the process in fatalLog.  The process  *)
(* is started again and again against the same bucket.                     *)
(***************************************************************************)
Backends == {"s3", "gcs", "azurebs", "alioss"}
Folders == {<<>>, <<"f">>}
ObjKeys == {<<"a">>, <<"b">>, <<"f", "/", "a">>}
ArgKeys == {<<"a">>, <<"b">>}
ArgLists == {<<>>} \cup {<<k>> : k \in ArgKeys} \cup {<<(<<"a">>), (<<"b">>)>>}

(* key: the object key of a name under cfg.FolderName *)
S3Key(folder, k) == IF Len(folder) # 0 THEN folder \o <<"/">> \o k ELSE k

(* the key a backend request for name k is about *)
BackendKey(k) == IF backend = "s3" THEN S3Key(cfgFolder, k) ELSE k

(* the answers each backend treats as "the object is not there" on delete *)
DeleteNotFoundS3Narrow(r) == r = "NotFound"
DeleteNotFoundS3(r) == r \in {"NotFound", "NoSuchKey"}
DeleteNotFoundGcs(r) == r = "ErrObjectNotExist"
DeleteNotFoundAz(r) == r = "RESPONSE 404"

(* the answers a backend can give to a delete request for key k *)
DeleteAnswers(k) ==
    IF k \in store THEN {"ok", "Other"}
    ELSE IF backend = "s3" THEN {"ok", "NotFound", "NoSuchKey", "Other"}
    ELSE IF backend = "gcs" THEN {"ErrObjectNotExist", "Other"}
    ELSE IF backend = "azurebs" THEN {"RESPONSE 404", "Other"}
    ELSE {"ok", "Other"}

(* the answers a backend can give to an existence request for key k *)
ExistsAnswers(k) ==
    IF k \in store THEN {"ok", "Other"}
    ELSE IF backend = "s3" THEN {"NotFound", "Other"}
    ELSE IF backend = "gcs" THEN {"ErrObjectNotExist", "Other"}
    ELSE IF backend = "azurebs" THEN {"RESPONSE 404", "Other"}
    ELSE {"absent", "Other"}

ReadOnlyErr == NewErr("the client operates in read only mode")
NotExistsErr == [code |-> "NotExistsError", msg |-> <<"object does not exist">>, keys |-> <<>>]

(* the type assertion of fatalLog: a NotExistsError itself, not a wrapped one *)
IsNotExistsError(e) == e.code = "NotExistsError" /\ Len(e.msg) = 1

(* fatalLog, and the return of main when the error is nil *)
FatalLogExitNoThree(e) == IF e = Nil THEN 0 ELSE 1
FatalLogExit(e) == IF e = Nil THEN 0 ELSE IF IsNotExistsError(e) THEN 3 ELSE 1

(* Execute, case "exists": the error made of the answer of Exists *)
ExecuteExists(exists, err) ==
    IF err = Nil /\ ~exists THEN NotExistsErr
    ELSE IF err # Nil THEN Wrap("failed to check exist", err)
    ELSE Nil

InitCli ==
    /\ backend \in Backends
    /\ readOnly \in BOOLEAN
    /\ readOnly => backend \in {"s3", "gcs"}
    /\ cfgFolder \in Folders
    /\ cfgFolder # <<>> => backend = "s3"
    /\ badURL \in BOOLEAN
    /\ badURL => backend \in {"azurebs", "alioss"}
    /\ cmd = "none"
    /\ args = <<>>
    /\ exitCode = -1
    /\ prev = NoRun
    /\ pc = "idle"
    /\ calls = <<>>
    /\ ret = Nil

InitObj ==
    /\ IdleCopy
    /\ cfgTimeout = ""
    /\ dest = <<>>
    /\ sourceMD5 = ""
    /\ remoteMD5 = ""
    /\ InitCli
    /\ IdleBulk
    /\ IdleUpload
    /\ IdleGet
    /\ IdleEnsure
    /\ store \in SUBSET ObjKeys

(* the end of a command: its error goes to fatalLog and the process exits *)
Exit(e) ==
    /\ ret' = e
    /\ exitCode' = FatalLogExit(e)
    /\ pc' = "idle"

(* main and Execute up to the call of the storage client *)
ExecuteObj ==
    /\ pc = "idle"
    /\ \E c \in {"delete", "exists"} : \E a \in ArgLists :
        /\ cmd' = c
        /\ args' = a
        /\ prev' = [cmd |-> cmd, args |-> args, ret |-> ret]
        /\ calls' = <<>>
        /\ IF Len(a) # 1
           THEN Exit(NewErr("expected 1 argument"))
           ELSE /\ ret' = Pending
                /\ exitCode' = -1
                /\ pc' = "cli-" \o c
    /\ UNCHANGED <<copyVars, putVars, backend, readOnly, cfgFolder, store, bulkVars, uploadVars, getVars, ensureVars>>

(* the bucket after a delete request for key k answered r *)
AfterDelete(k, r) == IF r = "ok" THEN store \ {k} ELSE store

(* awsS3Client.Delete *)
S3Delete ==
    /\ pc = "cli-delete"
    /\ backend = "s3"
    /\ LET k == S3Key(cfgFolder, args[1]) IN
       IF readOnly
       THEN /\ Exit(ReadOnlyErr)
            /\ UNCHANGED <<calls, store>>
       ELSE \E r \in DeleteAnswers(k) :
            /\ calls' = Append(calls, KeyCall("DeleteObject", <<k>>, r))
            /\ store' = AfterDelete(k, r)
            /\ Exit(IF r = "ok" \/ DeleteNotFoundS3(r) THEN Nil ELSE ApiErr(r))
    /\ UNCHANGED <<copyVars, putVars, backend, readOnly, cfgFolder, cmd, args, prev, bulkVars, uploadVars, getVars, ensureVars>>

(* GCSBlobstore.Delete *)
GcsDelete ==
    /\ pc = "cli-delete"
    /\ backend = "gcs"
    /\ LET k == args[1] IN
       IF readOnly
       THEN /\ Exit(ReadOnlyErr)
            /\ UNCHANGED <<calls, store>>
       ELSE \E r \in DeleteAnswers(k) :
            /\ calls' = Append(calls, KeyCall("Delete", <<k>>, r))
            /\ store' = AfterDelete(k, r)
            /\ Exit(IF r = "ok" \/ DeleteNotFoundGcs(r) THEN Nil ELSE ApiErr(r))
    /\ UNCHANGED <<copyVars, putVars, backend, readOnly, cfgFolder, cmd, args, prev, bulkVars, uploadVars, getVars, ensureVars>>

(* AzBlobstore.Delete and DefaultStorageClient.Delete of azurebs *)
AzDelete ==
    /\ pc = "cli-delete"
    /\ backend = "azurebs"
    /\ LET k == args[1] IN
       IF badURL
       THEN /\ Exit(NewErr("parse url"))
            /\ UNCHANGED <<calls, store>>
       ELSE \E r \in DeleteAnswers(k) :
            /\ calls' = Append(calls, KeyCall("Delete", <<k>>, r))
            /\ store' = AfterDelete(k, r)
            /\ Exit(IF r = "ok" \/ DeleteNotFoundAz(r) THEN Nil ELSE ApiErr(r))
    /\ UNCHANGED <<copyVars, putVars, backend, readOnly, cfgFolder, cmd, args, prev, bulkVars, uploadVars, getVars, ensureVars>>

(* AliBlobstore.Delete and DefaultStorageClient.Delete of alioss *)
AliDelete ==
    /\ pc = "cli-delete"
    /\ backend = "alioss"
    /\ LET k == args[1] IN
       IF badURL
       THEN /\ Exit(NewErr("oss client"))
            /\ UNCHANGED <<calls, store>>
       ELSE \E r \in DeleteAnswers(k) :
            /\ calls' = Append(calls, KeyCall("DeleteObject", <<k>>, r))
            /\ store' = AfterDelete(k, r)
            /\ Exit(IF r = "ok" THEN Nil ELSE ApiErr(r))
    /\ UNCHANGED <<copyVars, putVars, backend, readOnly, cfgFolder, cmd, args, prev, bulkVars, uploadVars, getVars, ensureVars>>

(* the (exists, err) pair a client makes of the answer r to its request *)
ExistsResult(r) ==
    IF r = "ok" THEN [exists |-> TRUE, err |-> Nil]
    ELSE IF r = "Other" THEN [exists |-> FALSE, err |-> ApiErr(r)]
    ELSE [exists |-> FALSE, err |-> Nil]

(* Execute, case "exists", after Exists answered, and fatalLog *)
ExitExists(res) == Exit(ExecuteExists(res.exists, res.err))

(* awsS3Client.Exists *)
S3Exists ==
    /\ pc = "cli-exists"
    /\ backend = "s3"
    /\ LET k == S3Key(cfgFolder, args[1]) IN
       \E r \in ExistsAnswers(k) :
            /\ calls' = Append(calls, KeyCall("HeadObject", <<k>>, r))
            /\ ExitExists(ExistsResult(r))
    /\ UNCHANGED <<copyVars, putVars, backend, readOnly, cfgFolder, store, cmd, args, prev, bulkVars, uploadVars, getVars, ensureVars>>

(* GCSBlobstore.Exists: the request of the public client *)
GcsExistsPublic ==
    /\ pc = "cli-exists"
    /\ backend = "gcs"
    /\ LET k == args[1] IN
       \E r \in ExistsAnswers(k) :
            /\ calls' = Append(calls, KeyCall("Attrs-public", <<k>>, r))
            /\ IF ExistsResult(r).err = Nil \/ readOnly
               THEN ExitExists(ExistsResult(r))
               ELSE /\ pc' = "cli-exists-auth"
                    /\ UNCHANGED <<ret, exitCode>>
    /\ UNCHANGED <<copyVars, putVars, backend, readOnly, cfgFolder, store, cmd, args, prev, bulkVars, uploadVars, getVars, ensureVars>>

(* GCSBlobstore.Exists: the request of the authenticated client *)
GcsExistsAuth ==
    /\ pc = "cli-exists-auth"
    /\ LET k == args[1] IN
       \E r \in ExistsAnswers(k) :
            /\ calls' = Append(calls, KeyCall("Attrs", <<k>>, r))
            /\ ExitExists(ExistsResult(r))
    /\ UNCHANGED <<copyVars, putVars, backend, readOnly, cfgFolder, store, cmd, args, prev, bulkVars, uploadVars, getVars, ensureVars>>

(* AzBlobstore.Exists and DefaultStorageClient.Exists of azurebs *)
AzExists ==
    /\ pc = "cli-exists"
    /\ backend = "azurebs"
    /\ LET k == args[1] IN
       IF badURL
       THEN /\ ExitExists([exists |-> FALSE, err |-> NewErr("parse url")])
            /\ UNCHANGED calls
       ELSE \E r \in ExistsAnswers(k) :
            /\ calls' = Append(calls, KeyCall("GetProperties", <<k>>, r))
            /\ ExitExists(ExistsResult(r))
    /\ UNCHANGED <<copyVars, putVars, backend, readOnly, cfgFolder, store, cmd, args, prev, bulkVars, uploadVars, getVars, ensureVars>>

(* AliBlobstore.Exists and DefaultStorageClient.Exists of alioss *)
AliExists ==
    /\ pc = "cli-exists"
    /\ backend = "alioss"
    /\ LET k == args[1] IN
       IF badURL
       THEN /\ ExitExists([exists |-> FALSE, err |-> NewErr("oss client")])
            /\ UNCHANGED calls
       ELSE \E r \in ExistsAnswers(k) :
            /\ calls' = Append(calls, KeyCall("IsObjectExist", <<k>>, r))
            /\ ExitExists(ExistsResult(r))
    /\ UNCHANGED <<copyVars, putVars, backend, readOnly, cfgFolder, store, cmd, args, prev, bulkVars, uploadVars, getVars, ensureVars>>

NextObj ==
    \/ ExecuteObj
    \/ S3Delete
    \/ GcsDelete
    \/ AzDelete
    \/ AliDelete
    \/ S3Exists
    \/ GcsExistsPublic
    \/ GcsExistsAuth
    \/ AzExists
    \/ AliExists

SpecObj == InitObj /\ [][NextObj]_vars

(* the key the current command is about *)
argKey == BackendKey(args[1])
Faulted == \E i \in 1..Len(calls) : calls[i].res = "Other"
DeleteDone == pc = "idle" /\ cmd = "delete" /\ Len(args) = 1
RepeatedDelete == DeleteDone /\ prev.cmd = "delete" /\ prev.args = args

(* C6: a delete that immediately follows a successful delete of the same   *)
(* key, and whose request the backend does not fail for an unrelated       *)
(* reason, finds the key absent and still returns success (exit code 0).   *)
C6_DeleteTwice ==
    (RepeatedDelete /\ prev.ret = Nil /\ ~Faulted)
        => /\ ret = Nil
           /\ exitCode = 0
           /\ Len(calls) = 1
           /\ argKey \notin store

C6_Witness ==
    /\ RepeatedDelete
    /\ prev.ret = Nil
    /\ ret = Nil
    /\ Len(calls) = 1
    /\ calls[1].res \in {"NoSuchKey", "ErrObjectNotExist", "RESPONSE 404"}

ExistsDone == pc = "idle" /\ cmd = "exists" /\ Len(args) = 1
(* the existence check failed: no request was answered, or the last one failed *)
CheckFailed == Len(calls) = 0 \/ calls[Len(calls)].res = "Other"

(* C8: exists ends with code 0 when the object exists, with code 3 when    *)
(* the backend answers without error that it does not, and with code 1,    *)
(* never 0 or 3, when the existence check failed.                          *)
C8_ExistsExitCode ==
    ExistsDone =>
        /\ (~CheckFailed /\ argKey \in store) => exitCode = 0
        /\ (~CheckFailed /\ argKey \notin store) => exitCode = 3
        /\ CheckFailed => exitCode = 1

C8_Witness ==
    /\ ExistsDone
    /\ exitCode = 3
    /\ prev.cmd = "exists"
    /\ prev.ret # Nil
    /\ ~IsNotExistsError(prev.ret)

(***************************************************************************)
(* list and delete-recursive.  A bucket answers a list request with the    *)
(* next keys under the prefix in key order, at most PageSize of them, and  *)
(* says whether more follow; the continuation is the last key returned.    *)
(***************************************************************************)
PageSize == 2
MaxFaults == 2
MaxConcurrentDeletes == 1
maxConcurrency == 5

(* the keys of the bucket, in the order a listing returns them *)
KeyOrder == << <<"a">>, <<"a", "b">>, <<"b">>, <<"f", "/", "a">>, <<"f", "/", "b">>, <<"g">> >>
AllKeys == {KeyOrder[i] : i \in 1..Len(KeyOrder)}
BulkKeys == {<<"a">>, <<"a", "b">>, <<"b">>, <<"f", "/", "a">>}
Prefixes == {<<"a">>, <<"f">>}
BulkArgLists == {<<>>} \cup {<<p>> : p \in Prefixes} \cup {<<(<<"a">>), (<<"f">>)>>}

Rank(k) == CHOOSE i \in 1..Len(KeyOrder) : KeyOrder[i] = k
HasPrefix(k, p) == Len(p) <= Len(k) /\ SubSeq(k, 1, Len(p)) = p
InOrder(S) == SelectSeq(KeyOrder, LAMBDA k : k \in S)
Elems(q) == {q[i] : i \in 1..Len(q)}

(* Execute: prefix of list and delete-recursive, "" when no argument *)
argPrefix == IF Len(args) = 1 THEN args[1] ELSE <<>>

(* the Prefix of the list request: s3 puts the folder before a prefix *)
S3Prefix(folder, p) == IF p # <<>> THEN S3Key(folder, p) ELSE <<>>
listPrefixNone == <<>>
listPrefix == IF backend = "s3" THEN S3Prefix(cfgFolder, argPrefix) ELSE argPrefix

(* what the bucket holds under prefix p after continuation m *)
Remaining(p, m) ==
    InOrder({k \in store : HasPrefix(k, p) /\ (m = <<>> \/ Rank(k) > Rank(m))})

IsFault(r) == r \in {"Other", "partial"}
FaultCount == Cardinality({i \in 1..Len(calls) : IsFault(calls[i].res)})
CanFault == FaultCount < MaxFaults

(* the answers to a list request: a page of n keys, or a failure *)
PageAnswers(p, m) ==
    LET rest == Remaining(p, m) IN
    {[keys |-> SubSeq(rest, 1, IF n < Len(rest) THEN n ELSE Len(rest)),
      res |-> IF n < Len(rest) THEN "more" ELSE "last"] : n \in 1..PageSize}
    \cup (IF CanFault THEN {[keys |-> <<>>, res |-> "Other"]} ELSE {})

(* NextMarker, NextContinuationToken: where the next page starts *)
NextMarker(ans) == IF ans.res = "more" THEN ans.keys[Len(ans.keys)] ELSE <<>>

BulkDeleteAnswers(k) == IF CanFault THEN DeleteAnswers(k) ELSE DeleteAnswers(k) \ {"Other"}

InitBulk ==
    /\ IdleCopy
    /\ cfgTimeout = ""
    /\ dest = <<>>
    /\ sourceMD5 = ""
    /\ remoteMD5 = ""
    /\ InitCli
    /\ IdleBulk
    /\ IdleUpload
    /\ IdleGet
    /\ IdleEnsure
    /\ store \in SUBSET BulkKeys

(* main and Execute up to the call of List or DeleteRecursive; one command *)
(* is followed from every bucket and configuration                         *)
ExecuteBulk ==
    /\ pc = "idle"
    /\ cmd = "none"
    /\ \E c \in {"list", "delete-recursive"} : \E a \in BulkArgLists :
        /\ cmd' = c
        /\ args' = a
        /\ prev' = [cmd |-> cmd, args |-> args, ret |-> ret]
        /\ calls' = <<>>
        /\ store0' = store
        /\ marker' = <<>>
        /\ objects' = <<>>
        /\ pending' = <<>>
        /\ more' = FALSE
        /\ workers' = <<>>
        /\ errChan' = <<>>
        /\ envDeleted' = {}
        /\ IF Len(a) > 1
           THEN Exit(NewErr("takes at most 1 argument"))
           ELSE /\ ret' = Pending
                /\ exitCode' = -1
                /\ pc' = c
    /\ UNCHANGED <<copyVars, putVars, uploadVars, getVars, ensureVars, backend, readOnly, cfgFolder, store>>

(* Execute, case "list", after List answered, and fatalLog *)
ExitList(e) == Exit(IF e # Nil THEN Wrap("failed to list objects", e) ELSE Nil)

(* the list loop: does it ask for another page? *)
ListStopsEarly(res) == FALSE
ListContinues(res) == res = "more"

(* the names List returns with the error of a failed page request: nil *)
ListFailureKeepsKeys(objs) == objs
ListFailureResult(objs) == <<>>

(* one round of a list loop: the page request and what the loop makes of  *)
(* its answer; texts is what the loop puts before the error of a failed   *)
(* page request.                                                          *)
ListRound(op, texts) ==
    \E ans \in PageAnswers(listPrefix, marker) :
        /\ calls' = Append(calls, KeyCall(op, ans.keys, ans.res))
        /\ IF ans.res = "Other"
           THEN /\ ExitList(WrapAll(texts, ApiErr("Other")))
                /\ objects' = ListFailureResult(objects)
                /\ UNCHANGED marker
           ELSE /\ objects' = objects \o ans.keys
                /\ marker' = NextMarker(ans)
                /\ IF ListContinues(ans.res)
                   THEN UNCHANGED <<pc, ret, exitCode>>
                   ELSE ExitList(Nil)

ListFrame == UNCHANGED <<copyVars, putVars, uploadVars, getVars, ensureVars, backend, readOnly, cfgFolder, store, cmd, args,
                         prev, store0, pending, more, workers, errChan, envDeleted>>

(* awsS3Client.List *)
S3List ==
    /\ pc = "list"
    /\ backend = "s3"
    /\ ListRound("ListObjectsV2", <<"failed to list objects">>)
    /\ ListFrame

(* GCSBlobstore.List *)
GcsList ==
    /\ pc = "list"
    /\ backend = "gcs"
    /\ IF readOnly
       THEN /\ ExitList(ReadOnlyErr)
            /\ UNCHANGED <<calls, objects, marker>>
       ELSE ListRound("Objects", <<>>)
    /\ ListFrame

(* AzBlobstore.List and DefaultStorageClient.List of azurebs *)
AzList ==
    /\ pc = "list"
    /\ backend = "azurebs"
    /\ IF badURL
       THEN /\ ExitList(Wrap("failed to create container client", NewErr("parse url")))
            /\ UNCHANGED <<calls, objects, marker>>
       ELSE ListRound("ListBlobsFlat", <<"error retrieving page of blobs">>)
    /\ ListFrame

(* AliBlobstore.List and DefaultStorageClient.List of alioss *)
AliList ==
    /\ pc = "list"
    /\ backend = "alioss"
    /\ IF badURL
       THEN /\ ExitList(NewErr("oss client"))
            /\ UNCHANGED <<calls, objects, marker>>
       ELSE ListRound("ListObjects", <<"error retrieving page of objects">>)
    /\ ListFrame

DRFrame == UNCHANGED <<copyVars, putVars, uploadVars, getVars, ensureVars, backend, readOnly, cfgFolder, cmd, args, prev,
                       store0, envDeleted>>

(* the end of a page of a sequential delete-recursive loop *)
PageDone ==
    IF more
    THEN /\ pc' = "delete-recursive"
         /\ UNCHANGED <<ret, exitCode>>
    ELSE Exit(Nil)

(* one round of the paginator loop of a delete-recursive *)
DeletePageRound(op, texts) ==
    \E ans \in PageAnswers(listPrefix, marker) :
        /\ calls' = Append(calls, KeyCall(op, ans.keys, ans.res))
        /\ IF ans.res = "Other"
           THEN /\ Exit(WrapAll(texts, ApiErr("Other")))
                /\ UNCHANGED <<pending, more, marker>>
           ELSE /\ pending' = ans.keys
                /\ more' = (ans.res = "more")
                /\ marker' = NextMarker(ans)
                /\ IF ans.keys # <<>>
                   THEN /\ pc' = "dr-delete"
                        /\ UNCHANGED <<ret, exitCode>>
                   ELSE Exit(Nil)

(* awsS3Client.DeleteRecursive: objectPaginator.NextPage *)
S3DeleteRecursivePage ==
    /\ pc = "delete-recursive"
    /\ backend = "s3"
    /\ DeletePageRound("ListObjectsV2",
                       <<"failed to list objects for deletion">>)
    /\ UNCHANGED <<store, objects, workers, errChan>>
    /\ DRFrame

(* awsS3Client.DeleteRecursive: DeleteObject of the next key of the page;  *)
(* does the loop go on after the answer r?                                 *)
S3GoesOn(r) == r = "ok" \/ DeleteNotFoundS3(r)

S3DeleteRecursiveDelete ==
    /\ pc = "dr-delete"
    /\ backend = "s3"
    /\ LET k == Head(pending) IN
       \E r \in BulkDeleteAnswers(k) :
            /\ calls' = Append(calls, KeyCall("DeleteObject", <<k>>, r))
            /\ store' = AfterDelete(k, r)
            /\ IF S3GoesOn(r)
               THEN /\ pending' = Tail(pending)
                    /\ IF Tail(pending) = <<>>
                       THEN PageDone
                       ELSE UNCHANGED <<pc, ret, exitCode>>
               ELSE /\ Exit(WrapKey("failed to delete object", k, ApiErr(r)))
                    /\ UNCHANGED pending
    /\ UNCHANGED <<marker, more, objects, workers, errChan>>
    /\ DRFrame

(* DefaultStorageClient.DeleteRecursive of azurebs: pager.NextPage *)
AzDeleteRecursivePage ==
    /\ pc = "delete-recursive"
    /\ backend = "azurebs"
    /\ IF badURL
       THEN /\ Exit(Wrap("failed to create container client", NewErr("parse url")))
            /\ UNCHANGED <<calls, pending, more, marker>>
       ELSE DeletePageRound("ListBlobsFlat",
                            <<"error retrieving page of blobs">>)
    /\ UNCHANGED <<store, objects, workers, errChan>>
    /\ DRFrame

(* DefaultStorageClient.DeleteRecursive of azurebs: Delete of the next     *)
(* blob of the page; a failure is logged and the loop goes on.             *)
AzDeleteRecursiveDelete ==
    /\ pc = "dr-delete"
    /\ backend = "azurebs"
    /\ LET k == Head(pending) IN
       \E r \in BulkDeleteAnswers(k) :
            /\ calls' = Append(calls, KeyCall("Delete", <<k>>, r))
            /\ store' = AfterDelete(k, r)
            /\ pending' = Tail(pending)
            /\ IF Tail(pending) = <<>>
               THEN PageDone
               ELSE UNCHANGED <<pc, ret, exitCode>>
    /\ UNCHANGED <<marker, more, objects, workers, errChan>>
    /\ DRFrame

(* DefaultStorageClient.DeleteRecursive of alioss: bucket.ListObjects *)
AliDeleteRecursivePage ==
    /\ pc = "delete-recursive"
    /\ backend = "alioss"
    /\ IF badURL
       THEN /\ Exit(NewErr("oss client"))
            /\ UNCHANGED <<calls, pending, more, marker>>
       ELSE DeletePageRound("ListObjects",
                            <<"error listing objects for delete">>)
    /\ UNCHANGED <<store, objects, workers, errChan>>
    /\ DRFrame

(* DefaultStorageClient.DeleteRecursive of alioss: bucket.DeleteObjects of *)
(* the page, in quiet mode; the response, which lists the keys that could  *)
(* not be deleted, is dropped.                                             *)
AliDeleteRecursiveBatch ==
    /\ pc = "dr-delete"
    /\ backend = "alioss"
    /\ \E r \in {"ok"} \cup (IF CanFault THEN {"Other", "partial"} ELSE {}) :
       \E kept \in SUBSET Elems(pending) :
            /\ r = "ok" => kept = {}
            /\ r = "Other" => kept = Elems(pending)
            /\ r = "partial" => kept # {}
            /\ calls' = Append(calls, KeyCall("DeleteObjects", pending, r))
            /\ store' = store \ (Elems(pending) \ kept)
            /\ IF r = "Other"
               THEN /\ Exit(Wrap("failed to batch delete", ApiErr(r)))
                    /\ UNCHANGED pending
               ELSE /\ pending' = <<>>
                    /\ PageDone
    /\ UNCHANGED <<marker, more, objects, workers, errChan>>
    /\ DRFrame

(* errors.Join: one error made of all, in the order given *)
RECURSIVE JoinMsgs(_)
JoinMsgs(errs) == IF errs = <<>> THEN <<>> ELSE Head(errs).msg \o JoinMsgs(Tail(errs))
RECURSIVE JoinKeys(_)
JoinKeys(errs) == IF errs = <<>> THEN <<>> ELSE Head(errs).keys \o JoinKeys(Tail(errs))
Join(errs) == [code |-> "joined", msg |-> JoinMsgs(errs), keys |-> JoinKeys(errs)]

(* GCSBlobstore.DeleteRecursive: the read-only check, client.List, and the *)
(* start of one goroutine for every name                                   *)
GcsDeleteRecursiveList ==
    /\ pc = "delete-recursive"
    /\ backend = "gcs"
    /\ IF readOnly
       THEN /\ Exit(ReadOnlyErr)
            /\ UNCHANGED <<calls, objects, marker, workers>>
       ELSE \E ans \in PageAnswers(listPrefix, marker) :
            /\ calls' = Append(calls, KeyCall("Objects", ans.keys, ans.res))
            /\ IF ans.res = "Other"
               THEN /\ Exit(Wrap("listing objects", ApiErr("Other")))
                    /\ UNCHANGED <<objects, marker, workers>>
               ELSE /\ objects' = objects \o ans.keys
                    /\ marker' = NextMarker(ans)
                    /\ UNCHANGED <<ret, exitCode>>
                    /\ IF ListContinues(ans.res)
                       THEN UNCHANGED <<pc, workers>>
                       ELSE /\ pc' = "dr-workers"
                            /\ workers' = [i \in 1..Len(objects') |-> "wait"]
    /\ UNCHANGED <<store, pending, more, errChan>>
    /\ DRFrame

(* the goroutines that hold a slot of the semaphore: a slot is given back  *)
(* when the goroutine returns                                              *)
Running == {i \in 1..Len(workers) : workers[i] \in {"run", "send"}}

(* errChan := make(chan error, len(names)) *)
ErrChanUnbuffered(n) == 0
ErrChanCapacity(n) == n

(* a goroutine takes a slot of the semaphore *)
GcsWorkerAcquireUnbounded ==
    /\ pc = "dr-workers"
    /\ \E i \in 1..Len(workers) :
        /\ workers[i] = "wait"
        /\ workers' = [workers EXCEPT ![i] = "run"]
    /\ UNCHANGED <<pc, calls, ret, exitCode, store, marker, objects, pending, more, errChan>>
    /\ DRFrame

GcsWorkerAcquire ==
    /\ pc = "dr-workers"
    /\ \E i \in 1..Len(workers) :
        /\ workers[i] = "wait"
        /\ Cardinality(Running) < maxConcurrency
        /\ workers' = [workers EXCEPT ![i] = "run"]
    /\ UNCHANGED <<pc, calls, ret, exitCode, store, marker, objects, pending, more, errChan>>
    /\ DRFrame

(* a goroutine deletes its object; it returns, and gives its slot back,    *)
(* unless it has a failure to report                                       *)
GcsWorkerDelete ==
    /\ pc = "dr-workers"
    /\ \E i \in 1..Len(workers) :
        /\ workers[i] = "run"
        /\ LET k == objects[i] IN
           \E r \in BulkDeleteAnswers(k) :
            /\ calls' = Append(calls, KeyCall("Delete", <<k>>, r))
            /\ store' = AfterDelete(k, r)
            /\ workers' = [workers EXCEPT ![i] = IF r # "ok" /\ ~DeleteNotFoundGcs(r)
                                                 THEN "send" ELSE "done"]
    /\ UNCHANGED <<pc, ret, exitCode, marker, objects, pending, more, errChan>>
    /\ DRFrame

(* a goroutine sends its failure to errChan, which blocks while the        *)
(* channel is full, and returns                                            *)
GcsWorkerSend ==
    /\ pc = "dr-workers"
    /\ \E i \in 1..Len(workers) :
        /\ workers[i] = "send"
        /\ Len(errChan) < ErrChanCapacity(Len(objects))
        /\ LET k == objects[i]
               c == CHOOSE j \in 1..Len(calls) : calls[j].op = "Delete" /\ calls[j].keys = <<k>>
           IN  errChan' = Append(errChan, WrapKey("deleting object", k, ApiErr(calls[c].res)))
        /\ workers' = [workers EXCEPT ![i] = "done"]
    /\ UNCHANGED <<pc, calls, ret, exitCode, store, marker, objects, pending, more>>
    /\ DRFrame

(* GCSBlobstore.DeleteRecursive after wg.Wait *)
GcsDeleteRecursiveJoin ==
    /\ pc = "dr-workers"
    /\ \A i \in 1..Len(workers) : workers[i] = "done"
    /\ Exit(IF Len(errChan) > 0 THEN Join(errChan) ELSE Nil)
    /\ UNCHANGED <<calls, store, marker, objects, pending, more, workers, errChan>>
    /\ DRFrame

(* another client removes an object under the prefix while a               *)
(* delete-recursive runs                                                   *)
ConcurrentDelete ==
    /\ pc \in {"delete-recursive", "dr-delete", "dr-workers"}
    /\ Cardinality(envDeleted) < MaxConcurrentDeletes
    /\ \E k \in store :
        /\ HasPrefix(k, listPrefix)
        /\ store' = store \ {k}
        /\ envDeleted' = envDeleted \cup {k}
    /\ UNCHANGED <<pc, calls, ret, copyVars, putVars, uploadVars, getVars, ensureVars, backend, readOnly, cfgFolder, cmd, args,
                   exitCode, prev, store0, marker, objects, pending, more, workers, errChan>>

NextBulk ==
    \/ ExecuteBulk
    \/ S3List
    \/ GcsList
    \/ AzList
    \/ AliList
    \/ S3DeleteRecursivePage
    \/ S3DeleteRecursiveDelete
    \/ AzDeleteRecursivePage
    \/ AzDeleteRecursiveDelete
    \/ AliDeleteRecursivePage
    \/ AliDeleteRecursiveBatch
    \/ GcsDeleteRecursiveList
    \/ GcsWorkerAcquire
    \/ GcsWorkerDelete
    \/ GcsWorkerSend
    \/ GcsDeleteRecursiveJoin
    \/ ConcurrentDelete

SpecBulk == InitBulk /\ [][NextBulk]_vars

ListOps == {"ListObjectsV2", "Objects", "ListBlobsFlat", "ListObjects"}
ListCalls == {i \in 1..Len(calls) : calls[i].op \in ListOps}
Listed == UNION {Elems(calls[i].keys) : i \in ListCalls}
NoListFailure == \A i \in ListCalls : calls[i].res # "Other"
DeleteRequests(k) ==
    {i \in 1..Len(calls) : calls[i].op \in {"DeleteObject", "Delete"} /\ calls[i].keys = <<k>>}
FailedKeys == {k \in AllKeys : \E i \in DeleteRequests(k) : calls[i].res = "Other"}
DRDone == pc = "idle" /\ cmd = "delete-recursive" /\ Len(args) <= 1

(* C3: when a recursive delete of s3 or gcs has ended and no list request  *)
(* failed, every key the listing returned has exactly one delete request,  *)
(* whatever the other delete requests were answered.                       *)
C3_OneDeletePerKey ==
    (DRDone /\ backend \in {"s3", "gcs"} /\ NoListFailure)
        => \A k \in Listed : Cardinality(DeleteRequests(k)) = 1

(* C4: a recursive delete of gcs or azurebs whose listing succeeded        *)
(* returns nil exactly when no delete request failed for a reason other    *)
(* than the key being absent; otherwise its error names the failed keys,   *)
(* each once, and no other key.                                            *)
C4_AggregateError ==
    (DRDone /\ backend \in {"gcs", "azurebs"} /\ NoListFailure /\ ~readOnly /\ ~badURL)
        => /\ ret = Nil <=> FailedKeys = {}
           /\ ret # Nil => /\ Elems(ret.keys) = FailedKeys
                           /\ Len(ret.keys) = Cardinality(FailedKeys)

RECURSIVE PagesFrom(_)
PagesFrom(i) ==
    IF i > Len(calls) THEN <<>>
    ELSE (IF calls[i].op \in ListOps THEN calls[i].keys ELSE <<>>) \o PagesFrom(i + 1)
ListDone == pc = "idle" /\ cmd = "list" /\ Len(args) <= 1

(* C5: a list that ends without error returns the keys of its pages, page  *)
(* after page and in the order within each page, every key once; every     *)
(* page but the last reported a continuation and the last one did not;     *)
(* the result is every key of the bucket under the prefix.                 *)
C5_ListPages ==
    (ListDone /\ ret = Nil)
        => /\ objects = PagesFrom(1)
           /\ \A i, j \in 1..Len(objects) : i # j => objects[i] # objects[j]
           /\ \A i \in 1..Len(calls) : calls[i].res = "last" <=> i = Len(calls)
           /\ \A i \in 1..Len(calls) : i < Len(calls) => calls[i].res = "more"
           /\ objects = InOrder({k \in store : HasPrefix(k, listPrefix)})

C5_Witness ==
    /\ ListDone
    /\ ret = Nil
    /\ backend = "alioss"
    /\ Len(calls) = 3
    /\ Len(calls[2].keys) = 2
    /\ Len(objects) = 4

(* the prefix of the command as a key of the bucket *)
cmdPrefix == BackendKey(args[1])

(* C9: delete-recursive with a prefix removes no object whose key does not *)
(* start with the prefix; when it ends and no request failed, no object    *)
(* whose key starts with the prefix is left.                               *)
C9_PrefixOnly ==
    (cmd = "delete-recursive" /\ Len(args) = 1)
        => /\ \A k \in store0 \ store : HasPrefix(k, cmdPrefix)
           /\ \A i \in 1..Len(calls) :
                calls[i].op \notin ListOps => \A k \in Elems(calls[i].keys) : HasPrefix(k, cmdPrefix)
           /\ (pc = "idle" /\ FaultCount = 0 /\ ~readOnly /\ ~badURL)
                => /\ ret = Nil
                   /\ store = {k \in store0 : ~HasPrefix(k, cmdPrefix)}

C9_Witness ==
    /\ cmd = "delete-recursive"
    /\ Len(args) = 1
    /\ pc = "idle"
    /\ ret = Nil
    /\ FaultCount = 0
    /\ envDeleted = {}
    /\ Cardinality(store0 \ store) = 2
    /\ store # {}

----------------------------------------------------------------------------
(* More properties of the S3 copy *)

CreateCalls == CallsOf("CreateMultipartUpload")
CompleteCalls == CallsOf("CompleteMultipartUpload")
AbortCalls == CallsOf("AbortMultipartUpload")
SessionOpened == \E i \in CreateCalls : calls[i].res = "ok"
SessionCompleted == \E i \in CompleteCalls : calls[i].res = "ok"
MultipartChosen == ~(objectSize < copyThreshold)

(* C11: a multipart session that was opened is never aborted twice, is     *)
(* never aborted after a successful completion call, and when the copy     *)
(* returns without a successful completion call exactly one abort request  *)
(* was issued, after the request that failed and before anything else.     *)
C11_AbortOnce ==
    /\ Cardinality(AbortCalls) <= 1
    /\ AbortCalls # {} => SessionOpened /\ ~SessionCompleted
    /\ (SessionOpened /\ ~SessionCompleted /\ (pc = "done" \/ pc = "simple" \/ CopyObjectCalls # {}))
            => /\ Cardinality(AbortCalls) = 1
               /\ \A a \in AbortCalls :
                    /\ a > 1
                    /\ calls[a - 1].op \in {"UploadPartCopy", "CompleteMultipartUpload"}
                    /\ calls[a - 1].res # "ok"
                    /\ \A j \in CopyObjectCalls : a < j

C11_Witness ==
    /\ pc = "done"
    /\ SessionOpened
    /\ \E i \in CompleteCalls : calls[i].res = "Other"
    /\ Cardinality(AbortCalls) = 1
    /\ ret # Nil

(* the copy went from the multipart strategy to the single-call strategy *)
Switched == MultipartChosen /\ (pc = "simple" \/ CopyObjectCalls # {})
MultipartRequests ==
    CreateCalls \cup PartCalls \cup CompleteCalls

(* C12, as stated: a copy that switched from the multipart strategy to the *)
(* single-call strategy has issued no part-copy call.                      *)
C12_NoPartBeforeSwitch == Switched => PartCalls = {}

(* C12, amended: a copy switches to the single-call strategy only after a  *)
(* request of the multipart strategy was rejected with NotImplemented,     *)
(* which is then the last request of that strategy; it issues one          *)
(* copy-object call at most and no part-copy call after the switch.        *)
C12_SwitchAfterRejection ==
    Switched =>
        /\ \E i \in MultipartRequests :
            /\ calls[i].res = "NotImplemented"
            /\ \A j \in MultipartRequests : j <= i
            /\ \A j \in MultipartRequests : j < i => calls[j].res = "ok"
        /\ Cardinality(CopyObjectCalls) <= 1
        /\ \A c \in CopyObjectCalls : \A i \in MultipartRequests : i < c

C12_Witness ==
    /\ Switched
    /\ pc = "done"
    /\ \E i \in PartCalls : calls[i].res = "ok"
    /\ \E i \in PartCalls : calls[i].res = "NotImplemented"
    /\ ret = Nil

(* C19: the completion call is issued at most once, and once when a        *)
(* multipart copy succeeds; before it every part 1..numParts was copied by *)
(* one successful part-copy call and no part-copy call failed; it carries  *)
(* the part numbers 1..numParts in ascending order, each once.             *)
C19_CompleteOnce ==
    /\ Cardinality(CompleteCalls) <= 1
    /\ (pc = "done" /\ MultipartChosen /\ ret = Nil /\ ~Switched) => Cardinality(CompleteCalls) = 1
    /\ \A c \in CompleteCalls :
        /\ \A i \in PartCalls : i < c /\ calls[i].res = "ok"
        /\ Cardinality(PartCalls) = numParts
        /\ \A k \in 1..numParts : Cardinality({i \in PartCalls : calls[i].n = k}) = 1
        /\ calls[c].keys = [k \in 1..numParts |-> k]

C19_Witness ==
    /\ pc = "done"
    /\ ret = Nil
    /\ numParts = 3
    /\ \E c \in CompleteCalls : calls[c].res = "ok" /\ Len(calls[c].keys) = 3

(* C20: when the source size is below the copy threshold the copy is the   *)
(* metadata request followed by exactly one copy-object call; no request   *)
(* of a multipart session is ever made, and the copy returns success when  *)
(* the copy-object call succeeds and its error, with nothing after it,     *)
(* when it fails.                                                          *)
C20_SimpleCopy ==
    objectSize < copyThreshold =>
        /\ MultipartRequests \cup AbortCalls = {}
        /\ Cardinality(CopyObjectCalls) <= 1
        /\ \A c \in CopyObjectCalls :
            /\ c = Len(calls)
            /\ pc = "done"
            /\ ret = Nil <=> calls[c].res = "ok"
        /\ (pc = "done" /\ calls[1].res = "ok") => Cardinality(CopyObjectCalls) = 1

C20_Witness ==
    /\ objectSize < copyThreshold
    /\ objectSize > 0
    /\ pc = "done"
    /\ \E c \in CopyObjectCalls : calls[c].res = "Other"
    /\ ret # Nil

----------------------------------------------------------------------------
(* More properties of list and delete-recursive *)

DeleteCalls == {i \in 1..Len(calls) : calls[i].op \in {"DeleteObject", "Delete", "DeleteObjects"}}

(* C13: a recursive delete of s3, gcs or alioss in which a list request    *)
(* failed returns an error and has issued no delete request.               *)
C13_ListFailureNoDelete ==
    (DRDone /\ backend \in {"s3", "gcs", "alioss"} /\ ~NoListFailure)
        => /\ ret # Nil
           /\ DeleteCalls = {}

(* A gcs bucket with more objects than maxConcurrency *)
(* DeleteRecursive from the return of client.List on: the bucket holds     *)
(* more objects than maxConcurrency and List has returned all their names. *)
InitWorkers ==
    /\ IdleCopy
    /\ IdlePut
    /\ IdleUpload
    /\ IdleGet
    /\ IdleEnsure
    /\ backend = "gcs"
    /\ readOnly = FALSE
    /\ cfgFolder = <<>>
    /\ store = AllKeys
    /\ cmd = "delete-recursive"
    /\ args = <<>>
    /\ exitCode = -1
    /\ prev = NoRun
    /\ pc = "dr-workers"
    /\ calls = <<KeyCall("Objects", KeyOrder, "last")>>
    /\ ret = Pending
    /\ store0 = AllKeys
    /\ marker = <<>>
    /\ objects = KeyOrder
    /\ pending = <<>>
    /\ more = FALSE
    /\ workers = [i \in 1..Len(KeyOrder) |-> "wait"]
    /\ errChan = <<>>
    /\ envDeleted = {}

NextWorkers ==
    \/ GcsWorkerAcquire
    \/ GcsWorkerDelete
    \/ GcsWorkerSend
    \/ GcsDeleteRecursiveJoin

(* the goroutines and the function itself are scheduled fairly, and every  *)
(* request is answered                                                     *)
SpecWorkers == InitWorkers /\ [][NextWorkers]_vars /\ WF_vars(NextWorkers)

(* the delete requests in flight: the goroutines between taking a slot of  *)
(* the semaphore and giving it back hold at most one request each          *)
InFlight == Cardinality(Running)

(* C14: at every moment of a recursive delete at most maxConcurrency       *)
(* delete requests are in flight, also when more keys were listed.         *)
C14_BoundedConcurrency == InFlight <= maxConcurrency

C14_Witness ==
    /\ pc = "dr-workers"
    /\ Len(workers) > maxConcurrency
    /\ InFlight = maxConcurrency
    /\ \E i \in 1..Len(workers) : workers[i] = "wait"

(***************************************************************************)
(* Put of s3 and gcs: the upload of a source file and its retries.  The    *)
(* calls log gets one entry for every upload attempt (n: its number, lo:   *)
(* the read position of the source when it starts), for every wait (n: its *)
(* seconds) and for every repositioning of the source (lo: the target).    *)
(***************************************************************************)
MaxFile == 2
maxRetries == 3
retryAttempts == 3

UploadCalls == CallsOf("Upload")
Attempt(res) == Call("Upload", Cardinality(UploadCalls) + 1, srcPos, srcSize - 1, <<>>, res)

InitUpload ==
    /\ IdleCopy
    /\ IdlePut
    /\ IdleBulk
    /\ backend \in {"s3", "gcs"}
    /\ readOnly \in BOOLEAN
    /\ cfgFolder = <<>>
    /\ store = {}
    /\ cmd = "none"
    /\ args = <<>>
    /\ exitCode = -1
    /\ prev = NoRun
    /\ pc = "put-start"
    /\ calls = <<>>
    /\ ret = Pending
    /\ retry = 0
    /\ IdleGet
    /\ IdleEnsure
    /\ srcSize \in 1..MaxFile
    /\ srcPos = 0
    /\ startPos = 0

UploadFrame == UNCHANGED <<copyVars, putVars, cliVars, bulkVars, srcSize, getVars, ensureVars>>

(* awsS3Client.Put up to the retry loop *)
S3PutStart ==
    /\ pc = "put-start"
    /\ backend = "s3"
    /\ IF readOnly
       THEN /\ pc' = "done"
            /\ ret' = ReadOnlyErr
       ELSE /\ pc' = "put-try"
            /\ ret' = ret
    /\ retry' = 0
    /\ UNCHANGED <<calls, srcPos, startPos>>
    /\ UploadFrame

(* the retry loop of awsS3Client.Put: is the retry budget used up? *)
S3RetriesUsedUp(r) == r = maxRetries
(* the seconds awsS3Client.Put waits after retry was incremented *)
S3Sleep(r) == r

(* awsS3Client.Put: one iteration of the retry loop, uploader.Upload and   *)
(* the wait that follows a failed attempt that is retried                  *)
S3PutUpload ==
    /\ pc = "put-try"
    /\ backend = "s3"
    /\ \E r \in {"ok", "MultiUploadFailure", "Other"} : \E read \in srcPos..srcSize :
        /\ r = "ok" => read = srcSize
        /\ srcPos' = read
        /\ IF r = "ok"
           THEN /\ calls' = Append(calls, Attempt(r))
                /\ pc' = "done"
                /\ ret' = Nil
                /\ retry' = retry
           ELSE IF r = "MultiUploadFailure"
           THEN IF S3RetriesUsedUp(retry)
                THEN /\ calls' = Append(calls, Attempt(r))
                     /\ pc' = "done"
                     /\ ret' = Wrap("upload retry limit exceeded", ApiErr(r))
                     /\ retry' = retry
                ELSE /\ retry' = retry + 1
                     /\ calls' = calls \o <<Attempt(r), Call("Sleep", S3Sleep(retry + 1), 0, 0, <<>>, "ok")>>
                     /\ UNCHANGED <<pc, ret>>
           ELSE /\ calls' = Append(calls, Attempt(r))
                /\ pc' = "done"
                /\ ret' = Wrap("upload failure", ApiErr(r))
                /\ retry' = retry
    /\ UNCHANGED startPos
    /\ UploadFrame

(* GCSBlobstore.Put up to the retry loop: os.Open, readOnly,               *)
(* validateRemoteConfig, src.Seek(0, io.SeekCurrent)                       *)
GcsPutStart ==
    /\ pc = "put-start"
    /\ backend = "gcs"
    /\ \E f \in {"ok", "open", "config", "seek"} :
        IF f = "open"
        THEN /\ pc' = "done"
             /\ ret' = NewErr("open: no such file or directory")
             /\ UNCHANGED startPos
        ELSE IF readOnly
        THEN /\ pc' = "done"
             /\ ret' = ReadOnlyErr
             /\ UNCHANGED startPos
        ELSE IF f = "config"
        THEN /\ pc' = "done"
             /\ ret' = NewErr("invalid remote config")
             /\ UNCHANGED startPos
        ELSE IF f = "seek"
        THEN /\ pc' = "done"
             /\ ret' = Wrap("finding buffer position", NewErr("seek"))
             /\ UNCHANGED startPos
        ELSE /\ pc' = "put-try"
             /\ ret' = ret
             /\ startPos' = srcPos
    /\ retry' = 0
    /\ UNCHANGED <<calls, srcPos>>
    /\ UploadFrame

(* GCSBlobstore.Put: putResumable of one iteration of the retry loop *)
GcsPutResumable ==
    /\ pc = "put-try"
    /\ backend = "gcs"
    /\ retry < retryAttempts
    /\ \E r \in {"ok", "Other"} : \E read \in srcPos..srcSize :
        /\ r = "ok" => read = srcSize
        /\ srcPos' = read
        /\ calls' = Append(calls, Attempt(r))
        /\ IF r = "ok"
           THEN /\ pc' = "done"
                /\ ret' = Nil
           ELSE /\ pc' = "put-seek"
                /\ ret' = ret
    /\ UNCHANGED <<retry, startPos>>
    /\ UploadFrame

(* src.Seek(pos, io.SeekStart): the read position it leaves *)
SeekStay(cur, target) == cur
SeekStart(cur, target) == target

(* GCSBlobstore.Put: the rest of an iteration after a failed attempt, the  *)
(* repositioning of the source, and the end of the loop                    *)
GcsPutSeek ==
    /\ pc = "put-seek"
    /\ \E r \in {"ok", "Other"} :
        /\ calls' = Append(calls, Call("Seek", 0, startPos, 0, <<>>, r))
        /\ IF r # "ok"
           THEN /\ pc' = "done"
                /\ ret' = Wrap("resetting buffer position after failed upload", NewErr("seek"))
                /\ UNCHANGED <<retry, srcPos>>
           ELSE /\ srcPos' = SeekStart(srcPos, startPos)
                /\ retry' = retry + 1
                /\ IF retry + 1 < retryAttempts
                   THEN /\ pc' = "put-try"
                        /\ ret' = ret
                   ELSE /\ pc' = "done"
                        /\ ret' = NewErr("upload failed after 3 attempts")
    /\ UNCHANGED startPos
    /\ UploadFrame

NextUpload ==
    \/ S3PutStart
    \/ S3PutUpload
    \/ GcsPutStart
    \/ GcsPutResumable
    \/ GcsPutSeek

SpecUpload == InitUpload /\ [][NextUpload]_vars

SeekCalls == CallsOf("Seek")
SleepCalls == CallsOf("Sleep")

(* C15: a put of s3 or gcs makes at most 3 upload attempts; when the third *)
(* has failed the put has returned an error or is about to, with no        *)
(* further attempt.                                                        *)
C15_ThreeAttempts ==
    /\ Cardinality(UploadCalls) <= 3
    /\ (pc = "done" /\ \E i \in UploadCalls : calls[i].n = 3 /\ calls[i].res # "ok") => ret # Nil

(* C16: every upload attempt of a gcs put starts reading the source at the *)
(* position it had when the put started; between two attempts the source  *)
(* was repositioned there once; after a failed repositioning the put       *)
(* returns an error and makes no further attempt.                          *)
C16_SeekReset ==
    backend = "gcs" =>
        /\ \A i \in UploadCalls : calls[i].lo = 0
        /\ \A i, j \in UploadCalls :
            calls[j].n = calls[i].n + 1 =>
                /\ j = i + 2
                /\ calls[i + 1].op = "Seek"
                /\ calls[i + 1].res = "ok"
                /\ calls[i + 1].lo = 0
        /\ \A k \in SeekCalls :
            calls[k].res # "ok" => /\ k = Len(calls)
                                   /\ pc = "done"
                                   /\ ret # Nil

C16_Witness ==
    /\ backend = "gcs"
    /\ pc = "done"
    /\ ret = Nil
    /\ Cardinality(UploadCalls) = 3
    /\ \E i \in UploadCalls : calls[i].res # "ok" /\ calls[i + 2].lo = 0 /\ calls[i + 2].hi > 0

(* C17: between two consecutive upload attempts of an s3 or gcs put there  *)
(* is one wait, of as many seconds as the number of the failed attempt.    *)
C17_LinearBackoff ==
    \A i, j \in UploadCalls :
        calls[j].n = calls[i].n + 1 =>
            /\ Cardinality({k \in SleepCalls : i < k /\ k < j}) = 1
            /\ \A k \in SleepCalls : (i < k /\ k < j) => calls[k].n = calls[i].n

(* C18, as stated: a list in which a page request failed ends with an      *)
(* error and delivers the keys of the pages fetched before the failure.    *)
C18_PartialKeysDelivered ==
    (ListDone /\ ~NoListFailure)
        => /\ ret # Nil
           /\ objects = PagesFrom(1)

(* C18, amended: a list in which a page request failed ends with an error  *)
(* right after that request and delivers no key at all; the keys of the    *)
(* pages fetched before the failure are dropped.                           *)
C18_FailedListDeliversNothing ==
    (ListDone /\ ~NoListFailure)
        => /\ ret # Nil
           /\ exitCode = 1
           /\ calls[Len(calls)].res = "Other"
           /\ \A i \in 1..Len(calls) : i < Len(calls) => calls[i].res = "more"
           /\ objects = <<>>

C18_Witness ==
    /\ ListDone
    /\ ~NoListFailure
    /\ backend = "alioss"
    /\ Len(calls) = 3
    /\ Len(PagesFrom(1)) = 3
    /\ objects = <<>>

----------------------------------------------------------------------------
(* C21: if the HeadObject request of the source fails, Copy returns an     *)
(* error, and it has issued no CopyObject request and opened no multipart  *)
(* session: the HeadObject request is the only request of the copy.        *)
StatFailed ==
    /\ calls # <<>>
    /\ calls[1].op = "HeadObject"
    /\ calls[1].res \in {"NotFound", "Other"}

C21_StatFailureTerminal ==
    StatFailed
        => /\ pc = "done"
           /\ ret = Wrap("failed to get object metadata", ApiErr(calls[1].res))
           /\ CopyObjectCalls = {}
           /\ CreateCalls = {}
           /\ Len(calls) = 1

C21_Witness ==
    /\ StatFailed
    /\ pc = "done"
    /\ IsErr(ret)
    /\ MultipartChosen

(* C22: when the abort request of a multipart session fails, multipartCopy *)
(* returns the failure of the part-copy or completion request that caused  *)
(* the abort; what Copy returns is that failure, or, when that failure is  *)
(* a rejection as not implemented, the outcome of the single-call copy, and*)
(* never the failure of the abort.                                         *)
AbortFailed == \E i \in AbortCalls : calls[i].res # "ok"
CauseOf(i) ==
    Wrap(IF calls[i - 1].op = "UploadPartCopy"
         THEN "failed to copy part"
         ELSE "failed to complete multipart upload", ApiErr(calls[i - 1].res))

C29_NoAbortAfterComplete ==
    SessionCompleted
        => /\ AbortCalls = {}
           /\ calls[Len(calls)].op = "CompleteMultipartUpload"
           /\ completed
           /\ pc = "done" => ret = Nil

C29_Witness ==
    /\ SessionCompleted
    /\ pc = "done"
    /\ ret = Nil
    /\ Cardinality(PartCalls) >= 2

----------------------------------------------------------------------------
(* Get: GCSBlobstore.Get, AzBlobstore.Get and DefaultStorageClient.Download*)
(* A file is its bytes: "o" a byte it held before the command, "n" a byte  *)
(* of the remote object, "z" a zero byte of an extension.                  *)

MaxBlob == 2       \* remote objects of 0..MaxBlob bytes
MaxLocal == 3      \* local files of 0..MaxLocal bytes

RECURSIVE Fill(_, _)
Fill(b, n) == IF n <= 0 THEN <<>> ELSE <<b>> \o Fill(b, n - 1)

File(data) == [there |-> TRUE, data |-> data]
OldFiles == {NoFile} \cup {File(Fill("o", n)) : n \in 0..MaxLocal}

(* os.Create: the file exists and is empty afterwards *)
CreateKeeps(f) == IF f.there THEN f ELSE File(<<>>)
Create(f) == File(<<>>)

(* os.File.Truncate(size): cut, or extend with zero bytes *)
TruncateSkipped(f, size) == f
Truncate(f, size) ==
    IF size <= Len(f.data)
    THEN File(SubSeq(f.data, 1, size))
    ELSE File(f.data \o Fill("z", size - Len(f.data)))

(* what a download leaves in a destination that held data: the first n     *)
(* bytes are bytes of the object, the rest is what the file held            *)
Written(f, n) ==
    File(Fill("n", n) \o (IF n < Len(f.data) THEN SubSeq(f.data, n + 1, Len(f.data)) ELSE <<>>))

InitGet ==
    /\ IdleCopy
    /\ IdlePut
    /\ IdleBulk
    /\ IdleUpload
    /\ IdleEnsure
    /\ backend \in {"gcs", "azurebs"}
    /\ readOnly \in BOOLEAN
    /\ cfgFolder = <<>>
    /\ store = {}
    /\ cmd \in {"get", "download"}
    /\ args = <<>>
    /\ exitCode = -1
    /\ prev = NoRun
    /\ pc = IF cmd = "get" THEN "get-create" ELSE "az-download"
    /\ calls = <<>>
    /\ ret = Pending
    /\ localFile0 \in OldFiles
    /\ cmd = "download" => backend = "azurebs" /\ localFile0.there
    /\ localFile = localFile0
    /\ remoteSize \in -1..MaxBlob
    /\ blobSize = 0

GetFrame == UNCHANGED <<copyVars, putVars, cliVars, bulkVars, uploadVars, ensureVars,
                        localFile0, remoteSize>>

(* the answers of a request that reads the object *)
ReadAnswers == IF remoteSize < 0 THEN {"NotFound", "Other"} ELSE {"ok", "Other"}

(* Get: os.Create(dest) *)
GetCreate ==
    /\ pc = "get-create"
    /\ \E r \in {"ok", "fail"} :
        IF r = "ok"
        THEN /\ localFile' = Create(localFile)
             /\ pc' = IF backend = "gcs" THEN "gcs-access" ELSE "az-download"
             /\ ret' = ret
        ELSE /\ localFile' = localFile
             /\ pc' = "done"
             /\ ret' = IF backend = "gcs"
                       THEN NewErr("open")
                       ELSE Wrap("failed to create destination file", NewErr("open"))
    /\ UNCHANGED <<calls, blobSize>>
    /\ GetFrame

(* GCSBlobstore.Get: checkAccess with the public client, then with the     *)
(* authenticated client when there is one                                  *)
GcsGetCheckAccess ==
    /\ pc = "gcs-access"
    /\ \E r1 \in ReadAnswers \cup {"Forbidden"}, r2 \in ReadAnswers :
        LET first == KeyCall("Attrs", <<"public">>, r1)
            second == KeyCall("Attrs", <<"authenticated">>, r2)
            retried == r1 # "ok" /\ ~readOnly
            err == IF retried THEN r2 ELSE r1
        IN  /\ calls' = IF retried THEN calls \o <<first, second>> ELSE Append(calls, first)
            /\ IF err = "ok"
               THEN /\ pc' = "gcs-download"
                    /\ ret' = ret
               ELSE /\ pc' = "done"
                    /\ ret' = ApiErr(err)
    /\ UNCHANGED <<localFile, blobSize>>
    /\ GetFrame

(* GCSBlobstore.Get: downloadConcurrent / downloadEncrypted *)
GcsGetDownload ==
    /\ pc = "gcs-download"
    /\ \E r \in ReadAnswers, n \in 0..MaxBlob :
        /\ calls' = Append(calls, SimpleCall("DownloadObject", r))
        /\ IF r = "ok"
           THEN /\ localFile' = Written(localFile, remoteSize)
                /\ ret' = Nil
           ELSE /\ n <= (IF remoteSize < 0 THEN 0 ELSE remoteSize)
                /\ localFile' = Written(localFile, n)
                /\ ret' = Wrap("download failed", ApiErr(r))
    /\ pc' = "done"
    /\ UNCHANGED blobSize
    /\ GetFrame

(* Download: client.DownloadFile(dest) writes the blob into the file and   *)
(* answers with its size                                                   *)
AzDownloadFile ==
    /\ pc = "az-download"
    /\ \E r \in ReadAnswers \cup {"badurl"} :
        /\ calls' = IF r = "badurl" THEN calls ELSE Append(calls, SimpleCall("DownloadFile", r))
        /\ IF r = "ok"
           THEN /\ localFile' = Written(localFile, remoteSize)
                /\ blobSize' = remoteSize
                /\ pc' = "az-stat"
                /\ ret' = ret
           ELSE /\ localFile' = localFile
                /\ blobSize' = blobSize
                /\ pc' = "done"
                /\ ret' = ApiErr(r)
    /\ GetFrame

(* Download: dest.Stat, and dest.Truncate(blobSize) when the sizes differ  *)
AzStatTruncate ==
    /\ pc = "az-stat"
    /\ \E st \in {"ok", "fail"} :
        IF st = "fail"
        THEN /\ ret' = NewErr("stat")
             /\ localFile' = localFile
        ELSE /\ ret' = Nil
             /\ localFile' = IF blobSize # Len(localFile.data)
                              THEN Truncate(localFile, blobSize)
                              ELSE localFile
    /\ pc' = "done"
    /\ UNCHANGED <<calls, blobSize>>
    /\ GetFrame

NextGet ==
    \/ GetCreate
    \/ GcsGetCheckAccess
    \/ GcsGetDownload
    \/ AzDownloadFile
    \/ AzStatTruncate

SpecGet == InitGet /\ [][NextGet]_vars

----------------------------------------------------------------------------
(* Properties of get *)

GetDone == cmd \in {"get", "download"} /\ pc = "done"
Downloaded == \E i \in CallsOf("DownloadFile") : calls[i].res = "ok"
CreateFailed == ret \in {NewErr("open"), Wrap("failed to create destination file", NewErr("open"))}

MissingGet == GetDone /\ cmd = "get" /\ remoteSize < 0 /\ localFile0.there

C28_DestinationUnchanged ==
    MissingGet
        => /\ IsErr(ret)
           /\ localFile = localFile0

(* C28, amended: a get of an object that does not exist fails; a local     *)
(* destination file that existed before is left empty, because get creates *)
(* the destination anew before it asks for the object, and is unchanged    *)
(* only when creating it failed.                                           *)
C28_DestinationEmptied ==
    MissingGet
        => /\ IsErr(ret)
           /\ localFile = IF CreateFailed THEN localFile0 ELSE File(<<>>)

C28_Witness ==
    /\ MissingGet
    /\ ~CreateFailed
    /\ Len(localFile0.data) = 2
    /\ localFile = File(<<>>)
    /\ calls # <<>>

----------------------------------------------------------------------------
(* C24: a client in read-only mode sends no mutating request: a command    *)
(* that writes (here delete-recursive) sends no delete request and returns *)
(* the read-only error.                                                    *)
MutatingOps ==
    {"DeleteObject", "Delete", "DeleteObjects", "CopyObject", "CreateMultipartUpload",
     "UploadPartCopy", "CompleteMultipartUpload", "Upload", "CreateBucket"}
MutatingCalls == {i \in 1..Len(calls) : calls[i].op \in MutatingOps}

C24_ReadOnlyNoMutation ==
    (readOnly /\ cmd = "delete-recursive")
        => /\ MutatingCalls = {}
           /\ DRDone => ret = ReadOnlyErr

----------------------------------------------------------------------------
(* C25: the recursive delete of gcs always returns: whatever was listed    *)
(* and whichever deletions fail, every goroutine gets its slot of the      *)
(* semaphore and gets rid of its failure, and the function returns, and    *)
(* only after every goroutine has finished.                                *)
AllWorkersDone == \A i \in 1..Len(workers) : workers[i] = "done"

C25_AlwaysReturns ==
    /\ [](cmd = "delete-recursive" => <>(pc = "idle"))
    /\ [](DRDone => AllWorkersDone)

C25_Witness ==
    /\ DRDone
    /\ Len(workers) > maxConcurrency
    /\ AllWorkersDone
    /\ Len(errChan) = 2
    /\ ret = Join(errChan)

----------------------------------------------------------------------------
(* C26: with a folder name configured, an s3 list or delete-recursive,     *)
(* with or without a prefix, lists and deletes only keys under the folder. *)
UnderFolder(k) == HasPrefix(k, cfgFolder \o <<"/">>)

C26_FolderOnly ==
    (backend = "s3" /\ cfgFolder # <<>> /\ cmd \in {"list", "delete-recursive"})
        => /\ \A i \in 1..Len(calls) : \A k \in Elems(calls[i].keys) : UnderFolder(k)
           /\ \A k \in Elems(objects) : UnderFolder(k)
           /\ \A k \in store0 \ (store \cup envDeleted) : UnderFolder(k)

----------------------------------------------------------------------------
(* ensure-storage-exists: awsS3Client.EnsureStorageExists,                 *)
(* GCSBlobstore.EnsureStorageExists and                                    *)
(* DefaultStorageClient.EnsureContainerExists, run by NumProcs invocations *)
(* of the command at the same time against one bucket or container.        *)
(* bucket is "absent", "present" (it was there before the invocations) or  *)
(* "created" (one of them created it).                                     *)

NumProcs == 2
Procs == 1..NumProcs

FirstStep == [s3 |-> "head", gcs |-> "attrs", azurebs |-> "create"]

InitEnsure ==
    /\ IdleCopy
    /\ IdlePut
    /\ IdleBulk
    /\ IdleUpload
    /\ IdleGet
    /\ backend \in {"s3", "gcs", "azurebs"}
    /\ readOnly \in BOOLEAN
    /\ readOnly => backend = "gcs"
    /\ cfgFolder = <<>>
    /\ store = {}
    /\ cmd = "ensure-storage-exists"
    /\ args = <<>>
    /\ exitCode = -1
    /\ prev = NoRun
    /\ pc = "ensure"
    /\ calls = <<>>
    /\ ret = Pending
    /\ bucket \in {"absent", "present"}
    /\ procs = [p \in Procs |-> [pc |-> FirstStep[backend], ret |-> Pending]]

EnsureFrame == UNCHANGED <<pc, ret, copyVars, putVars, cliVars, bulkVars, uploadVars, getVars>>

Return(p, e) == procs' = [procs EXCEPT ![p] = [pc |-> "done", ret |-> e]]
Goto(p, l) == procs' = [procs EXCEPT ![p] = [pc |-> l, ret |-> Pending]]

(* what the service answers to a request that asks for the bucket *)
LookupAnswers == {IF bucket = "absent" THEN "NotFound" ELSE "ok", "Other"}
(* and to a request that creates it; when the bucket is there s3 answers   *)
(* BucketAlreadyOwnedByYou or BucketAlreadyExists, gcs with a conflict,    *)
(* azure with ContainerAlreadyExists                                       *)
CreateAnswers(exists) ==
    {IF bucket = "absent" THEN "ok" ELSE exists, "Other"}

(* awsS3Client.EnsureStorageExists: HeadBucket *)
S3HeadBucket(p) ==
    /\ backend = "s3"
    /\ procs[p].pc = "head"
    /\ \E r \in LookupAnswers :
        /\ calls' = Append(calls, Call("HeadBucket", p, 0, 0, <<>>, r))
        /\ IF r = "ok" THEN Return(p, Nil)
           ELSE IF r # "NotFound"
                THEN Return(p, Wrap("failed to check if bucket exists", ApiErr(r)))
                ELSE Goto(p, "create")
    /\ UNCHANGED bucket
    /\ EnsureFrame

(* errors.As(err, &alreadyOwned) || errors.As(err, &alreadyExists) *)
S3AlreadyThere(r) == r \in {"BucketAlreadyOwnedByYou", "BucketAlreadyExists"}

(* awsS3Client.EnsureStorageExists: CreateBucket *)
S3CreateBucket(p) ==
    /\ backend = "s3"
    /\ procs[p].pc = "create"
    /\ \E x \in {"BucketAlreadyOwnedByYou", "BucketAlreadyExists"} : \E r \in CreateAnswers(x) :
        /\ calls' = Append(calls, Call("CreateBucket", p, 0, 0, <<>>, r))
        /\ bucket' = IF r = "ok" THEN "created" ELSE bucket
        /\ IF r = "ok" \/ S3AlreadyThere(r)
           THEN Return(p, Nil)
           ELSE Return(p, Wrap("failed to create bucket", ApiErr(r)))
    /\ EnsureFrame

(* GCSBlobstore.EnsureStorageExists: the read-only check and bh.Attrs *)
GcsBucketAttrs(p) ==
    /\ backend = "gcs"
    /\ procs[p].pc = "attrs"
    /\ IF readOnly
       THEN /\ Return(p, ReadOnlyErr)
            /\ calls' = calls
       ELSE \E r \in LookupAnswers :
            /\ calls' = Append(calls, Call("Attrs", p, 0, 0, <<>>, r))
            /\ IF r = "NotFound" THEN Goto(p, "create")
               ELSE IF r # "ok" THEN Return(p, Wrap("checking bucket", ApiErr(r)))
               ELSE Return(p, Nil)
    /\ UNCHANGED bucket
    /\ EnsureFrame

(* GCSBlobstore.EnsureStorageExists: extractProjectID and bh.Create; every *)
(* error of Create is returned                                             *)
GcsBucketCreate(p) ==
    /\ backend = "gcs"
    /\ procs[p].pc = "create"
    /\ \E r \in CreateAnswers("Conflict") \cup {"noproject"} :
        IF r = "noproject"
        THEN /\ calls' = calls
             /\ bucket' = bucket
             /\ Return(p, Wrap("extracting project ID", NewErr("no project")))
        ELSE /\ calls' = Append(calls, Call("CreateBucket", p, 0, 0, <<>>, r))
             /\ bucket' = IF r = "ok" THEN "created" ELSE bucket
             /\ IF r = "ok"
                THEN Return(p, Nil)
                ELSE Return(p, Wrap("creating bucket", ApiErr(r)))
    /\ EnsureFrame

(* DefaultStorageClient.EnsureContainerExists: containerClient.Create *)
AzContainerCreate(p) ==
    /\ backend = "azurebs"
    /\ procs[p].pc = "create"
    /\ \E r \in CreateAnswers("ContainerAlreadyExists") \cup {"badurl"} :
        IF r = "badurl"
        THEN /\ calls' = calls
             /\ bucket' = bucket
             /\ Return(p, Wrap("failed to create container client", NewErr("url")))
        ELSE /\ calls' = Append(calls, Call("CreateContainer", p, 0, 0, <<>>, r))
             /\ bucket' = IF r = "ok" THEN "created" ELSE bucket
             /\ IF r = "ok" \/ r = "ContainerAlreadyExists"
                THEN Return(p, Nil)
                ELSE Return(p, Wrap("failed to create container", ApiErr(r)))
    /\ EnsureFrame

NextEnsure ==
    \E p \in Procs :
        \/ S3HeadBucket(p)
        \/ S3CreateBucket(p)
        \/ GcsBucketAttrs(p)
        \/ GcsBucketCreate(p)
        \/ AzContainerCreate(p)

SpecEnsure == InitEnsure /\ [][NextEnsure]_vars

(* C27: when the invocations of ensure-storage-exists run at the same time *)
(* against a bucket or container that is not there, and the service        *)
(* answers every request without a failure of its own, all of them return  *)
(* success and the bucket or container exists afterwards.                  *)
EnsureAllDone == cmd = "ensure-storage-exists" /\ \A p \in Procs : procs[p].pc = "done"
StartedAbsent == bucket # "present"
NoServiceFailure ==
    /\ \A i \in 1..Len(calls) : calls[i].res # "Other"
    /\ \A p \in Procs : \E i \in 1..Len(calls) : calls[i].n = p

C27_ConcurrentEnsure ==
    (EnsureAllDone /\ StartedAbsent /\ NoServiceFailure)
        => /\ \A p \in Procs : procs[p].ret = Nil
           /\ bucket = "created"

----------------------------------------------------------------------------
(* Azure: DefaultStorageClient.Copy, a server-side copy that is started    *)
(* and then polled.  args holds srcBlob and destBlob.  The service reports *)
(* "pending" to at most MaxPolls polls of one copy.                        *)

MaxPolls == 4

CopyStatuses == {"success", "pending", "failed", "aborted"}

InitAzCopy ==
    /\ IdleCopy
    /\ cfgTimeout = ""
    /\ badURL \in BOOLEAN
    /\ dest = <<>>
    /\ sourceMD5 = ""
    /\ remoteMD5 = ""
    /\ IdleBulk
    /\ IdleUpload
    /\ IdleGet
    /\ IdleEnsure
    /\ backend = "azurebs"
    /\ readOnly = FALSE
    /\ cfgFolder = <<>>
    /\ store \in SUBSET ObjKeys
    /\ cmd = "copy"
    /\ args \in {<<s, d>> : s \in ArgKeys, d \in ArgKeys}
    /\ exitCode = -1
    /\ prev = NoRun
    /\ pc = "copy-start"
    /\ calls = <<>>
    /\ ret = Pending

AzCopyFrame == UNCHANGED <<copyVars, putVars, backend, readOnly, cfgFolder, cmd, args, exitCode,
                           prev, bulkVars, uploadVars, getVars, ensureVars>>

(* Copy: the destination client and StartCopyFromURL *)
AzStartCopyFromURL ==
    /\ pc = "copy-start"
    /\ IF badURL
       THEN /\ calls' = calls
            /\ pc' = "done"
            /\ ret' = Wrap("failed to create destination client", NewErr("url"))
       ELSE \E r \in {IF args[1] \in store THEN "ok" ELSE "NotFound", "Other"} :
            /\ calls' = Append(calls, KeyCall("StartCopyFromURL", args, r))
            /\ IF r = "ok"
               THEN /\ pc' = "copy-poll"
                    /\ ret' = ret
               ELSE /\ pc' = "done"
                    /\ ret' = Wrap("failed to start copy", ApiErr(r))
    /\ UNCHANGED store
    /\ AzCopyFrame

PollCalls == CallsOf("GetProperties")

(* case "pending": sleep and ask again *)
KeepsPollingUnlessSuccess(status) == status # "success"
KeepsPolling(status) == status = "pending"

(* Copy: one round of the loop: GetProperties and the switch on the status *)
AzCopyPoll ==
    /\ pc = "copy-poll"
    /\ \E r \in CopyStatuses \cup {"Other"} :
        /\ r = "pending" => Cardinality(PollCalls) < MaxPolls
        /\ calls' = Append(calls, KeyCall("GetProperties", <<args[2]>>, r))
        /\ store' = IF r = "success" THEN store \cup {args[2]} ELSE store
        /\ IF r = "Other"
           THEN /\ pc' = "done"
                /\ ret' = Wrap("failed to get properties", ApiErr(r))
           ELSE IF r = "success"
           THEN /\ pc' = "done"
                /\ ret' = Nil
           ELSE IF KeepsPolling(r)
           THEN /\ pc' = pc
                /\ ret' = ret
           ELSE /\ pc' = "done"
                /\ ret' = Wrap("copy failed or aborted with status", NewErr(r))
    /\ AzCopyFrame

NextAzCopy ==
    \/ AzStartCopyFromURL
    \/ AzCopyPoll

(* the loop is scheduled and every request is answered *)
SpecAzCopy == InitAzCopy /\ [][NextAzCopy]_vars /\ WF_vars(NextAzCopy)

(* C30: the Azure copy returns, with success or with an error, once the    *)
(* service reports a status other than pending, which it does after        *)
(* finitely many polls; after such a status no further poll is sent.       *)
Settled(i) == calls[i].op = "GetProperties" /\ calls[i].res # "pending"

C30_CopyReturns ==
    /\ <>(pc = "done" /\ ret # Pending)
    /\ [](\A i \in 1..Len(calls) :
            Settled(i) => /\ i = Len(calls)
                          /\ pc = "done"
                          /\ (ret = Nil) = (calls[i].res = "success"))

C30_Witness ==
    /\ pc = "done"
    /\ Cardinality(PollCalls) = 3
    /\ calls[Len(calls)].res = "aborted"
    /\ ret = Wrap("copy failed or aborted with status", NewErr("aborted"))

====
